---- MODULE Spec2Model ----
(***************************************************************************)
(* Customer Success Copilot: the analysis pipeline of                      *)
(* customer_success_agent.py and its tracked variant of                    *)
(* weave_integration.py.                                                   *)
(*                                                                         *)
(* Python values are modelled as follows.                                  *)
(*   str        a TLA+ string (TLC evaluates Len, \o and SubSeq on them)   *)
(*   None       the record None                                            *)
(*   a value parsed from JSON   [type |-> "dict" | "list" | "number",      *)
(*                               value |-> a record | a sequence | << >>]  *)
(*   a dict with known keys     a record; the empty dict is << >>          *)
(*   a float with two decimals  the integer of its hundredths (0.5 is 50)  *)
(*   a call that returns v      [raised |-> FALSE, value |-> v]            *)
(*   a call that raises E       [raised |-> TRUE,  value |-> "E"]          *)
(* The emoji that open the follow-up action strings are written as a       *)
(* bracketed ASCII name, TLA+ strings being ASCII.                         *)
(***************************************************************************)
EXTENDS Integers, Sequences, FiniteSets, TLC

VARIABLES
    pc,                 \* where the running call stands ("idle" between calls)
    entry,              \* the entry point that is running
    email_content,      \* argument of the running call
    customer_profile,   \* argument of the running call (None when omitted)
    sentiment_urgency,  \* local of the analysis: result of stage 1
    intent_analysis,    \* local of the analysis: result of stage 2
    key_issues,         \* local of the analysis: result of stage 3
    escalation_needed,  \* local of the analysis: result of stage 4
    resolution_time,    \* local of the analysis: result of stage 5
    analysis,           \* the AnalysisResult built by the running call
    response_data,      \* what generate_response_suggestion returned or raised
    quality_scores,     \* local of the tracked analysis: the judge's scores
    total_processing_time, \* local of the tracked analysis: seconds it took
    ret,                \* what the last call returned or raised
    gateway_calls,      \* the gateway calls issued by the running call, in order,
                        \* each with how it ended
    analysis_history,   \* self.analysis_history
    conversation_traces,\* self.conversation_traces
    performance_metrics,\* self.performance_metrics
    credentials,        \* the api_key argument and OPENAI_API_KEY of __init__
    client,             \* self.client
    company_knowledge   \* self.company_knowledge

vars == <<pc, entry, email_content, customer_profile, sentiment_urgency,
          intent_analysis, key_issues, escalation_needed, resolution_time,
          analysis, response_data, quality_scores, total_processing_time, ret,
          gateway_calls,
          analysis_history, conversation_traces, performance_metrics,
          credentials, client, company_knowledge>>

---------------------------------------------------------------------------
(* Python values *)

None == [none |-> TRUE]

Return(v) == [raised |-> FALSE, value |-> v]

Raise(e) == [raised |-> TRUE, value |-> e]

\* a dict: the values by key, and the keys in the order of insertion, which
\* for a parsed JSON object is the order of the keys in the text
PyDict(keys, r) == [type |-> "dict", value |-> r, keys |-> keys]

PyList(s) == [type |-> "list", value |-> s]

\* a JSON number or null: a value with no keys, no length and no iteration
PyNumber == [type |-> "number", value |-> << >>]

\* d.get(k, default) on a dict d
DictGet(d, k, default) == IF k \in DOMAIN d THEN d[k] ELSE default

\* x in xs, for a list xs
InList(x, xs) == \E i \in 1..Len(xs) : xs[i] = x

\* what a for loop or str.join sees of a list or of a dict: the elements,
\* or the keys in their order
Iter(v) == IF v.type = "dict" THEN v.keys ELSE v.value

\* {**d, k: v}, and d[k] = v on a copy of d: a key d has keeps its place
DictSet(d, k, v) ==
    PyDict(IF k \in DOMAIN d.value THEN d.keys ELSE Append(d.keys, k),
           (k :> v) @@ d.value)

\* x in v, for a list (an element) or a dict (a key)
PyIn(x, v) == IF v.type = "dict" THEN x \in DOMAIN v.value ELSE InList(x, v.value)

---------------------------------------------------------------------------
(* Floats: a Python float is an IEEE 754 double: the number m * 2^e with  *)
(* a natural m below 2^53. The mantissa can pass the range of the         *)
(* integers TLC computes with, so a natural number of any size is the     *)
(* sequence of its digits in base 2^15, least significant digit first,    *)
(* with no leading zero digit (0 is << >>).                               *)

Base == 2 ^ 15

RECURSIVE BigNorm(_)
BigNorm(a) ==
    IF a = << >> THEN a
    ELSE IF a[Len(a)] = 0 THEN BigNorm(SubSeq(a, 1, Len(a) - 1))
    ELSE a

RECURSIVE BigOfInt(_)
BigOfInt(n) == IF n = 0 THEN << >> ELSE <<n % Base>> \o BigOfInt(n \div Base)

RECURSIVE BigToInt(_)
BigToInt(a) == IF a = << >> THEN 0 ELSE a[1] + Base * BigToInt(Tail(a))

RECURSIVE BigAddCarry(_, _, _)
BigAddCarry(a, b, carry) ==
    IF a = << >> /\ b = << >> THEN BigOfInt(carry)
    ELSE LET x == (IF a = << >> THEN 0 ELSE a[1])
                  + (IF b = << >> THEN 0 ELSE b[1]) + carry
         IN  <<x % Base>> \o BigAddCarry(IF a = << >> THEN a ELSE Tail(a),
                                         IF b = << >> THEN b ELSE Tail(b),
                                         x \div Base)

BigAdd(a, b) == BigAddCarry(a, b, 0)

RECURSIVE BigSubBorrow(_, _, _)
BigSubBorrow(a, b, borrow) ==
    IF a = << >> THEN << >>
    ELSE LET x == a[1] - (IF b = << >> THEN 0 ELSE b[1]) - borrow
         IN  <<IF x < 0 THEN x + Base ELSE x>>
             \o BigSubBorrow(Tail(a), IF b = << >> THEN b ELSE Tail(b),
                             IF x < 0 THEN 1 ELSE 0)

\* a - b, for a >= b
BigSub(a, b) == BigNorm(BigSubBorrow(a, b, 0))

RECURSIVE BigCmpAt(_, _, _)
BigCmpAt(a, b, i) ==
    IF i = 0 THEN 0
    ELSE IF a[i] > b[i] THEN 1
    ELSE IF a[i] < b[i] THEN -1
    ELSE BigCmpAt(a, b, i - 1)

\* 1, 0 or -1 as a is above, equal to or below b
BigCmp(a, b) ==
    IF Len(a) > Len(b) THEN 1
    ELSE IF Len(a) < Len(b) THEN -1
    ELSE BigCmpAt(a, b, Len(a))

RECURSIVE BigMulCarry(_, _, _)
BigMulCarry(a, k, carry) ==
    IF a = << >> THEN BigOfInt(carry)
    ELSE LET x == a[1] * k + carry
         IN  <<x % Base>> \o BigMulCarry(Tail(a), k, x \div Base)

\* a * k, for a digit k
BigMulSmall(a, k) == IF k = 0 THEN << >> ELSE BigMulCarry(a, k, 0)

\* a * Base^n
BigShiftDigits(a, n) == IF a = << >> THEN a ELSE [i \in 1..n |-> 0] \o a

RECURSIVE BigMul(_, _)
BigMul(a, b) ==
    IF b = << >> THEN << >>
    ELSE BigAdd(BigMulSmall(a, b[1]), BigShiftDigits(BigMul(a, Tail(b)), 1))

\* quotient and remainder of a by a digit d > 0
RECURSIVE BigDivSmall(_, _)
BigDivSmall(a, d) ==
    IF a = << >> THEN [q |-> << >>, r |-> 0]
    ELSE LET high == BigDivSmall(Tail(a), d)
             x == high.r * Base + a[1]
         IN  [q |-> BigNorm(<<x \div d>> \o high.q), r |-> x % d]

\* a * 2^k
BigShl(a, k) == BigShiftDigits(BigMulSmall(a, 2 ^ (k % 15)), k \div 15)

\* a \div 2^k
BigShr(a, k) ==
    IF k \div 15 >= Len(a) THEN << >>
    ELSE BigDivSmall(SubSeq(a, k \div 15 + 1, Len(a)), 2 ^ (k % 15)).q

RECURSIVE BitLenInt(_)
BitLenInt(n) == IF n = 0 THEN 0 ELSE 1 + BitLenInt(n \div 2)

\* the number of binary digits of a
BitLen(a) == IF a = << >> THEN 0 ELSE 15 * (Len(a) - 1) + BitLenInt(a[Len(a)])

\* the largest digit q with q * b <= x, for x < b * Base and a divisor b
\* whose leading digit is at least Base / 2: the estimate from the leading
\* digits is at most 2 too large
RECURSIVE LowerDigit(_, _, _)
LowerDigit(q, x, b) ==
    IF BigCmp(BigMulSmall(b, q), x) > 0 THEN LowerDigit(q - 1, x, b) ELSE q

QuotientDigit(x, b) ==
    LET n == Len(b)
        top == (IF Len(x) > n THEN x[n + 1] * Base ELSE 0)
               + (IF Len(x) >= n THEN x[n] ELSE 0)
        estimate == top \div b[n]
    IN  LowerDigit(IF estimate > Base - 1 THEN Base - 1 ELSE estimate, x, b)

\* the only element of a set of one element. The({F(x) : x \in {e}}) is
\* F(e), with e computed once and before F
The(S) == CHOOSE r \in S : TRUE

\* one step of the long division: the quotient and the remainder of
\* low + Base * (high.q * b + high.r) by b
DivDigit(x, digit, q, b) ==
    [q |-> BigNorm(<<digit>> \o q), r |-> BigSub(x, BigMulSmall(b, digit))]

DivStep(high, low, b) ==
    The({The({DivDigit(x, digit, high.q, b) : digit \in {QuotientDigit(x, b)}}) :
            x \in {BigNorm(<<low>> \o high.r)}})

RECURSIVE BigLongDiv(_, _)
BigLongDiv(a, b) ==
    IF a = << >> THEN [q |-> << >>, r |-> << >>]
    ELSE The({DivStep(high, a[1], b) : high \in {BigLongDiv(Tail(a), b)}})

\* the quotient of a by b > 0 and whether the division leaves a remainder:
\* by a divisor of one digit the short division, else the long one, with
\* both numbers scaled so that the divisor's leading digit is Base / 2 or more
BigDiv(a, b) ==
    IF Len(b) = 1
    THEN LET d == BigDivSmall(a, b[1])
         IN  [q |-> d.q, inexact |-> d.r # 0]
    ELSE LET scale == 2 ^ (15 - BitLenInt(b[Len(b)]))
             d == BigLongDiv(BigMulSmall(a, scale), BigMulSmall(b, scale))
         IN  [q |-> d.q, inexact |-> d.r # << >>]

\* the float 0.0
FZero == [neg |-> FALSE, m |-> << >>, e |-> 0]

\* m * 2^e with m odd: one float has one representation
RECURSIVE FOdd(_, _, _)
FOdd(neg, m, e) ==
    IF m[1] = 0 THEN FOdd(neg, Tail(m), e + 15)
    ELSE IF m[1] % 2 = 0 THEN FOdd(neg, BigDivSmall(m, 2).q, e + 1)
    ELSE [neg |-> neg, m |-> m, e |-> e]

FCanon(neg, m, e) == IF m = << >> THEN FZero ELSE FOdd(neg, m, e)

\* m \div 2^k rounded to the nearest natural, ties to even; `above` says
\* that the number rounded is above m by less than 1
BigRoundShr(m, k, above) ==
    LET q == BigShr(m, k)
        c == BigCmp(BigSub(m, BigShl(q, k)), BigShl(<<1>>, k - 1))
        up == c > 0 \/ (c = 0 /\ (above \/ (q # << >> /\ q[1] % 2 = 1)))
    IN  IF up THEN BigAdd(q, <<1>>) ELSE q

\* the double nearest to m * 2^e (plus less than 2^e when `above`), ties to
\* even: 53 binary digits are kept. The exponent is not bounded (no number
\* of the program comes near 2^1024 or 2^-1022).
FRound(neg, m, e, above) ==
    IF BitLen(m) <= 53 THEN FCanon(neg, m, e)
    ELSE LET drop == BitLen(m) - 53
         IN  FCanon(neg, BigRoundShr(m, drop, above), e + drop)

\* float(n) of an integer n
FOfInt(n) == FCanon(n < 0, BigOfInt(IF n < 0 THEN -n ELSE n), 0)

FNeg(x) == IF x.m = << >> THEN x ELSE [x EXCEPT !.neg = ~x.neg]

\* x + y
FAdd(x, y) ==
    LET e == IF x.e < y.e THEN x.e ELSE y.e
        a == BigShl(x.m, x.e - e)
        b == BigShl(y.m, y.e - e)
        c == BigCmp(a, b)
    IN  IF x.neg = y.neg THEN FRound(x.neg, BigAdd(a, b), e, FALSE)
        ELSE IF c = 0 THEN FZero
        ELSE IF c > 0 THEN FRound(x.neg, BigSub(a, b), e, FALSE)
        ELSE FRound(y.neg, BigSub(b, a), e, FALSE)

\* x - y
FSub(x, y) == FAdd(x, FNeg(y))

\* x * y
FMul(x, y) == FRound(x.neg # y.neg, BigMul(x.m, y.m), x.e + y.e, FALSE)

\* x / y, for y # 0: the quotient of the mantissas to 55 binary digits or more
FDiv(x, y) ==
    IF x.m = << >> THEN FZero
    ELSE LET need == 55 + BitLen(y.m) - BitLen(x.m)
             s == IF need > 0 THEN need ELSE 0
             d == BigDiv(BigShl(x.m, s), y.m)
         IN  FRound(x.neg # y.neg, d.q, x.e - y.e - s, d.inexact)

\* x < y
FLess(x, y) == FSub(x, y).neg

\* max(x, y): the first of the two unless the second is greater
FMax(x, y) == IF FLess(x, y) THEN y ELSE x

\* the float a decimal literal k / scale denotes (scale a power of ten)
FOfDecimal(k, scale) == FDiv(FOfInt(k), FOfInt(scale))

\* round(x, n) as the integer round(x, n) * 10^n, for scale = 10^n: the
\* exact value of x is rounded, ties to even
FRoundScaled(x, scale) ==
    LET m == BigMulSmall(x.m, scale)
        k == IF x.e >= 0 THEN BigToInt(BigShl(m, x.e))
             ELSE BigToInt(BigRoundShr(m, -x.e, FALSE))
    IN  IF x.neg THEN -k ELSE k

---------------------------------------------------------------------------
(* str.lower() and the substring test `sub in s` *)

UpperCase == "ABCDEFGHIJKLMNOPQRSTUVWXYZ"

LowerCase == "abcdefghijklmnopqrstuvwxyz"

LowerChar(c) ==
    IF \E i \in 1..Len(UpperCase) : SubSeq(UpperCase, i, i) = c
    THEN LET i == CHOOSE j \in 1..Len(UpperCase) : SubSeq(UpperCase, j, j) = c
         IN  SubSeq(LowerCase, i, i)
    ELSE c

RECURSIVE StrLower(_)
StrLower(s) ==
    IF Len(s) = 0 THEN ""
    ELSE LowerChar(SubSeq(s, 1, 1)) \o StrLower(SubSeq(s, 2, Len(s)))

StrContains(sub, s) ==
    \E i \in 1..(Len(s) - Len(sub) + 1) : SubSeq(s, i, i + Len(sub) - 1) = sub

---------------------------------------------------------------------------
(* The gateway: self.client.chat.completions.create and json.loads.        *)
(* A response is the outcome of one call: the call raised (error), or it   *)
(* returned text, which json.loads either rejects or parses to `parsed`.   *)

GatewayError ==
    [error |-> TRUE, valid_json |-> FALSE, parsed |-> PyNumber, text |-> ""]

NotJson ==
    [error |-> FALSE, valid_json |-> FALSE, parsed |-> PyNumber,
     text |-> "Sorry, I cannot help with that."]

Json(v) == [error |-> FALSE, valid_json |-> TRUE, parsed |-> v, text |-> "json"]

\* a reply of the gpt-4 generation call: free text, never parsed
Reply(t) == [error |-> FALSE, valid_json |-> FALSE, parsed |-> PyNumber, text |-> t]

\* how a gateway call ended, for the log of calls
Outcome(response) ==
    IF response.error THEN "error"
    ELSE IF response.valid_json THEN "json" ELSE "text"

\* str(e) of the exception the try block catches: the gateway's error, or
\* the JSONDecodeError of json.loads, which rejects the text of NotJson at
\* its first character
ErrorText(response) ==
    IF response.error THEN "Connection error."
    ELSE "Expecting value: line 1 column 1 (char 0)"

---------------------------------------------------------------------------
(* Stages 1 to 3: one gateway call each, with a fixed fallback *)

\* mutant: the fallback analysis is Frustrated at High urgency
FallbackSentimentUrgencyFrustrated(response) ==
    PyDict(<<"sentiment", "urgency">>,
           [sentiment |-> [label |-> "Frustrated", confidence |-> 50,
                           key_indicators |-> << >>],
            urgency   |-> [level |-> "High",
                           reasoning |-> "Analysis error: " \o ErrorText(response),
                           urgency_indicators |-> << >>]])

\* customer_success_agent.py 180-183: the fallback analysis
FallbackSentimentUrgency(response) ==
    PyDict(<<"sentiment", "urgency">>,
           [sentiment |-> [label |-> "Neutral", confidence |-> 50,
                           key_indicators |-> << >>],
            urgency   |-> [level |-> "Medium",
                           reasoning |-> "Analysis error: " \o ErrorText(response),
                           urgency_indicators |-> << >>]])

\* mutant: a label outside the enum is replaced by Neutral
_analyze_sentiment_urgency_validated(response) ==
    IF response.error \/ ~response.valid_json
    THEN FallbackSentimentUrgency(response)
    ELSE IF /\ response.parsed.type = "dict"
            /\ "sentiment" \in DOMAIN response.parsed.value
            /\ response.parsed.value.sentiment.label
                   \notin {"Positive", "Neutral", "Frustrated", "Angry"}
    THEN PyDict(response.parsed.keys,
                [response.parsed.value EXCEPT !.sentiment.label = "Neutral"])
    ELSE response.parsed

_analyze_sentiment_urgency(response) ==
    IF response.error \/ ~response.valid_json
    THEN FallbackSentimentUrgency(response)
    ELSE response.parsed

_classify_intent(response) ==
    IF response.error \/ ~response.valid_json
    THEN PyList(<<"General Inquiry">>)
    ELSE response.parsed

\* mutant: the issue stage falls back to the intent stage's list
_extract_key_issues_intent_fallback(response) ==
    IF response.error \/ ~response.valid_json
    THEN PyList(<<"General Inquiry">>)
    ELSE response.parsed

_extract_key_issues(response) ==
    IF response.error \/ ~response.valid_json
    THEN PyList(<<"Unable to extract specific issues">>)
    ELSE response.parsed

---------------------------------------------------------------------------
(* Stage 4: escalation assessment *)

escalation_triggers ==
    <<"cancel", "cancellation", "terminate", "refund",
      "lawyer", "legal", "unacceptable", "terrible",
      "manager", "supervisor", "escalate">>

\* mutant: the email is matched as written, .lower() forgotten
ContentEscalationCaseSensitive(email) ==
    \E i \in 1..Len(escalation_triggers) : StrContains(escalation_triggers[i], email)

\* any(trigger in content_lower for trigger in escalation_triggers)
ContentEscalation(email) ==
    LET content_lower == StrLower(email)
    IN  \E i \in 1..Len(escalation_triggers) :
            StrContains(escalation_triggers[i], content_lower)

\* sentiment_urgency.get(key, {}).get(sub) in labels
NestedGetIn(d, key, sub, labels) ==
    /\ key \in DOMAIN d
    /\ sub \in DOMAIN d[key]
    /\ d[key][sub] \in labels

\* mutant: a Premium customer is escalated whatever the sentiment
_assess_escalation_need_any_premium(email, su, profile) ==
    IF su.type # "dict"
    THEN Raise("AttributeError")
    ELSE Return(\/ ContentEscalation(email)
                \/ /\ NestedGetIn(su.value, "urgency", "level", {"High", "Critical"})
                   /\ NestedGetIn(su.value, "sentiment", "label", {"Frustrated", "Angry"})
                \/ (IF profile # None THEN profile.tier = "Premium" ELSE FALSE))

\* mutant: the Premium rule also asks for a tenure above a year
_assess_escalation_need_tenured(email, su, profile) ==
    IF su.type # "dict"
    THEN Raise("AttributeError")
    ELSE Return(\/ ContentEscalation(email)
                \/ /\ NestedGetIn(su.value, "urgency", "level", {"High", "Critical"})
                   /\ NestedGetIn(su.value, "sentiment", "label", {"Frustrated", "Angry"})
                \/ /\ (IF profile # None
                        THEN profile.tier = "Premium" /\ profile.tenure_months > 12
                        ELSE FALSE)
                   /\ NestedGetIn(su.value, "sentiment", "label", {"Frustrated", "Angry"}))

_assess_escalation_need(email, su, profile) ==
    LET content_escalation == ContentEscalation(email)
    IN  IF su.type # "dict"
        THEN Raise("AttributeError")
        ELSE LET high_urgency ==
                     NestedGetIn(su.value, "urgency", "level", {"High", "Critical"})
                 negative_sentiment ==
                     NestedGetIn(su.value, "sentiment", "label", {"Frustrated", "Angry"})
                 premium_customer ==
                     IF profile # None THEN profile.tier = "Premium" ELSE FALSE
             IN  Return(\/ content_escalation
                        \/ (high_urgency /\ negative_sentiment)
                        \/ (premium_customer /\ negative_sentiment))

---------------------------------------------------------------------------
(* Stage 5: resolution time estimate *)

time_estimates ==
    ("General Inquiry" :> "< 2 hours") @@
    ("Billing Dispute" :> "24-48 hours") @@
    ("Technical Issue" :> "4-24 hours") @@
    ("Feature Request" :> "Logged for future development") @@
    ("Account Access" :> "< 4 hours") @@
    ("Integration Support" :> "1-3 business days") @@
    ("Cancellation Request" :> "< 24 hours")

\* mutant: the first long estimate is kept
RECURSIVE ScanIntentsFirst(_, _)
ScanIntentsFirst(intents, max_time) ==
    IF Len(intents) = 0 THEN max_time
    ELSE LET intent == Head(intents)
             next_max ==
                 IF intent \in DOMAIN time_estimates /\ max_time = "< 2 hours"
                 THEN LET estimated_time == time_estimates[intent]
                      IN  IF \/ StrContains("business days", estimated_time)
                             \/ StrContains("24-48", estimated_time)
                          THEN estimated_time
                          ELSE max_time
                 ELSE max_time
         IN  ScanIntentsFirst(Tail(intents), next_max)

\* the loop of lines 305-309, over the rest of the list
RECURSIVE ScanIntents(_, _)
ScanIntents(intents, max_time) ==
    IF Len(intents) = 0 THEN max_time
    ELSE LET intent == Head(intents)
             next_max ==
                 IF intent \in DOMAIN time_estimates
                 THEN LET estimated_time == time_estimates[intent]
                      IN  IF \/ StrContains("business days", estimated_time)
                             \/ StrContains("24-48", estimated_time)
                          THEN estimated_time
                          ELSE max_time
                 ELSE max_time
         IN  ScanIntents(Tail(intents), next_max)

\* mutant: the escalation override is applied only when no intent has a
\* long estimate
_estimate_resolution_time_intents_first(intents, escalation) ==
    IF intents.type = "number" THEN Raise("TypeError")
    ELSE LET max_time == ScanIntents(Iter(intents), "< 2 hours")
         IN  IF escalation /\ max_time = "< 2 hours"
             THEN Return("< 2 hours (escalated)")
             ELSE Return(max_time)

\* mutant: max_time starts empty
_estimate_resolution_time_no_default(intents, escalation) ==
    IF escalation THEN Return("< 2 hours (escalated)")
    ELSE IF intents.type = "number" THEN Raise("TypeError")
    ELSE Return(ScanIntents(Iter(intents), ""))

\* a list is scanned, a dict by its keys; a number cannot be iterated
_estimate_resolution_time(intents, escalation) ==
    IF escalation THEN Return("< 2 hours (escalated)")
    ELSE IF intents.type = "number" THEN Raise("TypeError")
    ELSE Return(ScanIntents(Iter(intents), "< 2 hours"))

---------------------------------------------------------------------------
(* Customer context *)

Digit(d) == SubSeq("0123456789", d + 1, d + 1)

\* str(n) for an int n, as the f-strings of lines 323 and 325 render it
RECURSIVE IntToStr(_)
IntToStr(n) ==
    IF n < 0 THEN "-" \o IntToStr(-n)
    ELSE IF n < 10 THEN Digit(n)
    ELSE IntToStr(n \div 10) \o Digit(n % 10)

\* mutant: three tickets still earn the support point
_assess_relationship_strength_three_tickets(profile) ==
    LET tenure == IF profile.tenure_months > 24 THEN 2
                  ELSE IF profile.tenure_months > 12 THEN 1 ELSE 0
        tier == IF profile.tier = "Premium" THEN 2
                ELSE IF profile.tier = "Standard" THEN 1 ELSE 0
        sentiment == IF profile.previous_sentiment = "Positive" THEN 2
                     ELSE IF profile.previous_sentiment = "Neutral" THEN 1 ELSE 0
        support == IF profile.support_tickets_count <= 3 THEN 1 ELSE 0
        score == tenure + tier + sentiment + support
    IN  IF score >= 6 THEN "Strong"
        ELSE IF score >= 4 THEN "Moderate"
        ELSE "Weak"

\* mutant: every tier but Standard earns the two tier points
_assess_relationship_strength_any_tier(profile) ==
    LET tenure == IF profile.tenure_months > 24 THEN 2
                  ELSE IF profile.tenure_months > 12 THEN 1 ELSE 0
        tier == IF profile.tier = "Standard" THEN 1 ELSE 2
        sentiment == IF profile.previous_sentiment = "Positive" THEN 2
                     ELSE IF profile.previous_sentiment = "Neutral" THEN 1 ELSE 0
        support == IF profile.support_tickets_count < 3 THEN 1 ELSE 0
        score == tenure + tier + sentiment + support
    IN  IF score >= 6 THEN "Strong"
        ELSE IF score >= 4 THEN "Moderate"
        ELSE "Weak"

_assess_relationship_strength(profile) ==
    LET tenure == IF profile.tenure_months > 24 THEN 2
                  ELSE IF profile.tenure_months > 12 THEN 1 ELSE 0
        tier == IF profile.tier = "Premium" THEN 2
                ELSE IF profile.tier = "Standard" THEN 1 ELSE 0
        sentiment == IF profile.previous_sentiment = "Positive" THEN 2
                     ELSE IF profile.previous_sentiment = "Neutral" THEN 1 ELSE 0
        support == IF profile.support_tickets_count < 3 THEN 1 ELSE 0
        score == tenure + tier + sentiment + support
    IN  IF score >= 6 THEN "Strong"
        ELSE IF score >= 4 THEN "Moderate"
        ELSE "Weak"

\* mutant: the tenure is rendered from the ticket count
_build_customer_context_swapped(profile) ==
    IF profile = None
    THEN [profile_available |-> FALSE]
    ELSE [profile_available |-> TRUE,
          customer_name |-> profile.name,
          tier |-> profile.tier,
          tenure |-> IntToStr(profile.support_tickets_count) \o " months",
          previous_sentiment |-> profile.previous_sentiment,
          support_history |->
              IntToStr(profile.support_tickets_count) \o " previous tickets",
          relationship_strength |-> _assess_relationship_strength(profile)]

_build_customer_context(profile) ==
    IF profile = None
    THEN [profile_available |-> FALSE]
    ELSE [profile_available |-> TRUE,
          customer_name |-> profile.name,
          tier |-> profile.tier,
          tenure |-> IntToStr(profile.tenure_months) \o " months",
          previous_sentiment |-> profile.previous_sentiment,
          support_history |->
              IntToStr(profile.support_tickets_count) \o " previous tickets",
          relationship_strength |-> _assess_relationship_strength(profile)]

---------------------------------------------------------------------------
(* Response generation *)

\* mutant: Critical urgency is forgotten
_get_tone_guidance_high_only(a) ==
    LET sentiment == a.sentiment.label
        urgency == a.urgency.level
    IN  IF "label" \notin DOMAIN a.sentiment \/ "level" \notin DOMAIN a.urgency
        THEN Raise("KeyError")
        ELSE Return(
        IF sentiment \in {"Angry", "Frustrated"} /\ urgency = "High"
        THEN "Extremely empathetic, formal, and solution-focused. Acknowledge frustration explicitly."
        ELSE IF sentiment \in {"Angry", "Frustrated"}
        THEN "Empathetic and professional. Focus on understanding and resolving concerns."
        ELSE IF urgency = "High"
        THEN "Professional and urgent. Emphasize quick resolution timeline."
        ELSE "Friendly and professional. Maintain positive relationship tone.")

\* customer_success_agent.py 426-439: the subscripts raise KeyError when the
\* label or the level is missing
_get_tone_guidance(a) ==
    LET sentiment == a.sentiment.label
        urgency == a.urgency.level
    IN  IF "label" \notin DOMAIN a.sentiment \/ "level" \notin DOMAIN a.urgency
        THEN Raise("KeyError")
        ELSE Return(
        IF sentiment \in {"Angry", "Frustrated"} /\ urgency \in {"High", "Critical"}
        THEN "Extremely empathetic, formal, and solution-focused. Acknowledge frustration explicitly."
        ELSE IF sentiment \in {"Angry", "Frustrated"}
        THEN "Empathetic and professional. Focus on understanding and resolving concerns."
        ELSE IF urgency \in {"High", "Critical"}
        THEN "Professional and urgent. Emphasize quick resolution timeline."
        ELSE "Friendly and professional. Maintain positive relationship tone.")

\* sep.join(parts)
RECURSIVE StrJoin(_, _)
StrJoin(sep, parts) ==
    IF Len(parts) = 0 THEN ""
    ELSE IF Len(parts) = 1 THEN parts[1]
    ELSE parts[1] \o sep \o StrJoin(sep, Tail(parts))

\* mutant: the premium SLA action is appended before the feature request
_generate_follow_up_actions_premium_early(a) ==
    LET a1 == IF a.escalation_needed
              THEN <<"[siren] Escalate to manager immediately">> ELSE <<>>
        a2 == IF PyIn("Billing Dispute", a.intent)
              THEN <<"[money] Review billing history and usage">> ELSE <<>>
        a3 == IF PyIn("Technical Issue", a.intent)
              THEN <<"[wrench] Engage engineering team for technical review">> ELSE <<>>
        a4 == IF PyIn("Feature Request", a.intent)
              THEN <<"[bulb] Log feature request in product backlog">> ELSE <<>>
        a5 == IF DictGet(a.customer_context, "tier", "") = "Premium"
              THEN <<"[star] Apply premium support SLA (< 4 hour response)">> ELSE <<>>
        a6 == <<"[clock] Follow up within " \o a.estimated_resolution_time>>
    IN  IF a.intent.type = "number" THEN Raise("TypeError")
        ELSE Return(StrJoin(" | ", a1 \o a2 \o a3 \o a5 \o a4 \o a6))

\* customer_success_agent.py 441-463: `in` raises TypeError on a number
_generate_follow_up_actions(a) ==
    LET a1 == IF a.escalation_needed
              THEN <<"[siren] Escalate to manager immediately">> ELSE <<>>
        a2 == IF PyIn("Billing Dispute", a.intent)
              THEN <<"[money] Review billing history and usage">> ELSE <<>>
        a3 == IF PyIn("Technical Issue", a.intent)
              THEN <<"[wrench] Engage engineering team for technical review">> ELSE <<>>
        a4 == IF PyIn("Feature Request", a.intent)
              THEN <<"[bulb] Log feature request in product backlog">> ELSE <<>>
        a5 == IF DictGet(a.customer_context, "tier", "") = "Premium"
              THEN <<"[star] Apply premium support SLA (< 4 hour response)">> ELSE <<>>
        a6 == <<"[clock] Follow up within " \o a.estimated_resolution_time>>
    IN  IF a.intent.type = "number" THEN Raise("TypeError")
        ELSE Return(StrJoin(" | ", a1 \o a2 \o a3 \o a4 \o a5 \o a6))

\* customer_success_agent.py 420-424: the mapping returned when the try block fails
FallbackResponse(response) ==
    [suggested_response |->
         "I apologize for the delay in my response. I'm looking into your inquiry and will get back to you shortly with a resolution.",
     tone_guidance |-> "Professional and apologetic",
     follow_up_actions |-> "Error generating actions: " \o ErrorText(response)]

\* customer_success_agent.py 372-382: the exception raised while the prompt
\* is formatted, before the try block and the gateway call ("" when none):
\* the subscripts sentiment['label'], sentiment['confidence'] and
\* urgency['level'], then ', '.join over the intents and over the key issues
PromptError(a) ==
    IF "label" \notin DOMAIN a.sentiment THEN "KeyError"
    ELSE IF "confidence" \notin DOMAIN a.sentiment THEN "KeyError"
    ELSE IF "level" \notin DOMAIN a.urgency THEN "KeyError"
    ELSE IF a.intent.type = "number" THEN "TypeError"
    ELSE IF a.key_issues.type = "number" THEN "TypeError"
    ELSE ""

\* mutant: the fallback mapping carries the tone guidance of the analysis
generate_response_suggestion_real_tone(a, email, response) ==
    IF PromptError(a) # "" THEN Raise(PromptError(a))
    ELSE IF response.error
    THEN Return([FallbackResponse(response) EXCEPT
                     !.tone_guidance = _get_tone_guidance(a).value])
    ELSE Return([suggested_response |-> response.text,
                 tone_guidance |-> _get_tone_guidance(a).value,
                 follow_up_actions |-> _generate_follow_up_actions(a).value])

\* `response` is the outcome of the gpt-4 call; its text is the reply
generate_response_suggestion(a, email, response) ==
    IF PromptError(a) # "" THEN Raise(PromptError(a))
    ELSE IF response.error
    THEN Return(FallbackResponse(response))
    ELSE Return([suggested_response |-> response.text,
                 tone_guidance |-> _get_tone_guidance(a).value,
                 follow_up_actions |-> _generate_follow_up_actions(a).value])

---------------------------------------------------------------------------
(* The tracing wrappers of weave_integration.py (weave.log only logs) *)

\* `elapsed` is the wrapper's clock reading, time.time() - start_time
analyze_sentiment_with_tracing(response, elapsed) ==
    LET result == _analyze_sentiment_urgency(response)
    IN  IF result.type # "dict" THEN Raise("TypeError")
        ELSE IF "sentiment" \notin DOMAIN result.value THEN Raise("KeyError")
        ELSE IF "label" \notin DOMAIN result.value.sentiment THEN Raise("KeyError")
        ELSE IF "confidence" \notin DOMAIN result.value.sentiment THEN Raise("KeyError")
        ELSE IF "urgency" \notin DOMAIN result.value THEN Raise("KeyError")
        ELSE IF "level" \notin DOMAIN result.value.urgency THEN Raise("KeyError")
        ELSE Return(DictSet(result, "processing_time", elapsed))

\* mutant: the wrapper returns the intents without duplicates
classify_intent_with_tracing_distinct(response) ==
    LET intents == _classify_intent(response)
        Distinct(s) == SelectSeq([i \in 1..Len(s) |-> <<i, s[i]>>],
                                 LAMBDA p : \A j \in 1..(p[1] - 1) : s[j] # p[2])
    IN  IF intents.type = "number" THEN Raise("TypeError")
        ELSE IF intents.type = "list"
        THEN Return(PyList([i \in 1..Len(Distinct(intents.value)) |->
                                Distinct(intents.value)[i][2]]))
        ELSE Return(intents)

\* len(intents) raises on a value that has no length
classify_intent_with_tracing(response) ==
    LET intents == _classify_intent(response)
    IN  IF intents.type = "number" THEN Raise("TypeError") ELSE Return(intents)

extract_issues_with_tracing(response) ==
    LET issues == _extract_key_issues(response)
    IN  IF issues.type = "number" THEN Raise("TypeError") ELSE Return(issues)

---------------------------------------------------------------------------
(* AnalysisResult(...) as both entry points build it: the subscripts       *)
(* sentiment_urgency["sentiment"] and ["urgency"] raise KeyError           *)

AnalysisResult(su, intents, issues, profile, escalation, resolution) ==
    IF "sentiment" \notin DOMAIN su.value THEN Raise("KeyError")
    ELSE IF "urgency" \notin DOMAIN su.value THEN Raise("KeyError")
    ELSE Return([sentiment |-> su.value.sentiment,
                 urgency |-> su.value.urgency,
                 intent |-> intents,
                 key_issues |-> issues,
                 customer_context |-> _build_customer_context(profile),
                 escalation_needed |-> escalation,
                 estimated_resolution_time |-> resolution])

---------------------------------------------------------------------------
(* Inputs *)

\* longest intent list a gateway response holds
MaxIntents == 2

\* most words of an email
MaxWords == 2

SeqsUpTo(S, n) == UNION {[1..k -> S] : k \in 0..n}

Profile(tier, tenure, previous, tickets) ==
    [name |-> "Sarah Johnson", tier |-> tier, tenure_months |-> tenure,
     previous_sentiment |-> previous, support_tickets_count |-> tickets,
     last_interaction_date |-> "2024-01-15"]

SentimentDict(label, confidence, level) ==
    PyDict(<<"sentiment", "urgency">>,
           [sentiment |-> [label |-> label, confidence |-> confidence],
            urgency |-> [level |-> level, reasoning |-> "stated by the model"]])

\* what the gateway can answer at stage 1: an error, text that is no JSON,
\* JSON of another shape, an object that lacks keys (at either level), the
\* object asked for (with labels inside and outside the enums)
SentimentResponses ==
    {GatewayError, NotJson, Json(PyList(<<>>)), Json(PyDict(<< >>, << >>)),
     Json(PyDict(<<"sentiment">>, [sentiment |-> [label |-> "Angry", confidence |-> 90]])),
     Json(PyDict(<<"urgency">>,
                 [urgency |-> [level |-> "High", reasoning |-> "stated by the model"]])),
     Json(PyDict(<<"sentiment", "urgency">>,
                 [sentiment |-> [label |-> "Angry"],
                  urgency |-> [level |-> "High", reasoning |-> "stated by the model"]]))}
    \cup {Json(SentimentDict(l, 87, u)) :
              l \in {"Angry", "Neutral", "Upset"}, u \in {"High", "Low"}}

PipelineIntents == {"Billing Dispute", "Integration Support", "Technical Issue", "Complaint"}

\* a failed call, text that is no JSON, a number, a JSON object (its keys
\* are what a loop or a membership test sees), and the lists
IntentResponses ==
    {GatewayError, NotJson, Json(PyNumber), Json(PyDict(<< >>, << >>))}
    \cup {Json(PyList(l)) : l \in SeqsUpTo(PipelineIntents, MaxIntents)}

IssueResponses ==
    {GatewayError, NotJson, Json(PyNumber), Json(PyDict(<< >>, << >>)),
     Json(PyList(<<"Cannot access premium features", "Incorrect billing">>))}

ReplyResponses == {GatewayError, Reply("Dear customer, we are on it.")}

PipelineEmails ==
    {"I want to Cancel my plan", "Our order was CANCELLED twice",
     "Thanks for the quick help"}

PipelineProfiles ==
    {None, Profile("Premium", 36, "Positive", 2), Profile("Basic", 6, "Negative", 5)}

\* the wrappers' clock readings, in seconds: no rule reads them
Elapsed == {2}

---------------------------------------------------------------------------
(* The agent *)

\* weave_integration.py 203-209
InitialMetrics ==
    [total_conversations |-> 0, total_processing_time |-> 0,
     avg_quality_score |-> FZero,
     escalation_rate |-> FZero,
     customer_satisfaction_estimate |-> 85]

\* the locals of a call that has not started
NoCall ==
    /\ pc = "idle"
    /\ entry = "none"
    /\ email_content = ""
    /\ customer_profile = None
    /\ sentiment_urgency = None
    /\ intent_analysis = None
    /\ key_issues = None
    /\ escalation_needed = FALSE
    /\ resolution_time = ""
    /\ analysis = None
    /\ response_data = None
    /\ quality_scores = None
    /\ total_processing_time = 0
    /\ ret = None
    /\ gateway_calls = << >>

\* a key that is given, and the key that is not (None, or no variable in
\* the environment)
Key(value) == [given |-> TRUE, value |-> value]

NoKey == [given |-> FALSE, value |-> ""]

\* `not api_key`: the key is None or the empty string
Missing(key) == ~key.given \/ key.value = ""

\* mutant: the environment is not consulted
ResolveKeyArgumentOnly(api_key, environ) == api_key

\* customer_success_agent.py 52-53: the argument, else the environment
ResolveKey(api_key, environ) == IF Missing(api_key) THEN environ ELSE api_key

\* app.py 77: the agent is constructed without argument, the key being in
\* the environment
AppCredentials == [api_key |-> NoKey, environ |-> Key("sk-env")]

\* the fields __init__ has set when it returns
Constructed ==
    /\ credentials = AppCredentials
    /\ client = [api_key |-> Key("sk-env")]
    /\ company_knowledge = "loaded"
    /\ analysis_history = << >>
    /\ conversation_traces = << >>
    /\ performance_metrics = InitialMetrics

\* __init__ with an API key: the state after construction
Init == NoCall /\ Constructed

agent == <<analysis_history, conversation_traces, performance_metrics,
           credentials, client, company_knowledge>>

locals == <<sentiment_urgency, intent_analysis, key_issues, escalation_needed,
            resolution_time, analysis, quality_scores, total_processing_time>>

\* a call begins: its arguments are bound, its locals are unset
Begin(name, email, profile) ==
    /\ pc = "idle"
    /\ pc' = "sentiment"
    /\ entry' = name
    /\ email_content' = email
    /\ customer_profile' = profile
    /\ sentiment_urgency' = None
    /\ intent_analysis' = None
    /\ key_issues' = None
    /\ escalation_needed' = FALSE
    /\ resolution_time' = ""
    /\ analysis' = None
    /\ response_data' = None
    /\ quality_scores' = None
    /\ total_processing_time' = 0
    /\ ret' = None
    /\ gateway_calls' = << >>
    /\ UNCHANGED agent

\* mutant: a call that did not yield JSON is issued a second time
CalledWithRetry(stage, response) ==
    gateway_calls' =
        IF Outcome(response) = "json"
        THEN Append(gateway_calls, [stage |-> stage, outcome |-> Outcome(response)])
        ELSE Append(Append(gateway_calls,
                           [stage |-> stage, outcome |-> Outcome(response)]),
                    [stage |-> stage, outcome |-> Outcome(response)])

Called(stage, response) ==
    gateway_calls' =
        Append(gateway_calls, [stage |-> stage, outcome |-> Outcome(response)])

\* mutant: the exception is caught and handed back as a value
PropagateSwallowed(e) ==
    /\ pc' = "idle"
    /\ ret' = Return([error |-> e])

\* the running call ends with exception e: nothing else changes
Propagate(e) ==
    /\ pc' = "idle"
    /\ ret' = Raise(e)

---------------------------------------------------------------------------
(* analyze_customer_communication, customer_success_agent.py 86-132 *)

Start(emails, profiles) ==
    \E email \in emails, profile \in profiles : Begin("analyze", email, profile)

\* line 103
Sentiment(responses) ==
    /\ pc = "sentiment" /\ entry = "analyze"
    /\ \E r \in responses :
           /\ sentiment_urgency' = _analyze_sentiment_urgency(r)
           /\ Called("sentiment", r)
    /\ pc' = "intent"
    /\ UNCHANGED <<entry, email_content, customer_profile, intent_analysis,
                   key_issues, escalation_needed, resolution_time, analysis,
                   response_data, quality_scores, total_processing_time, ret, agent>>

\* line 106
Intent(responses) ==
    /\ pc = "intent" /\ entry = "analyze"
    /\ \E r \in responses :
           /\ intent_analysis' = _classify_intent(r)
           /\ Called("intent", r)
    /\ pc' = "issues"
    /\ UNCHANGED <<entry, email_content, customer_profile, sentiment_urgency,
                   key_issues, escalation_needed, resolution_time, analysis,
                   response_data, quality_scores, total_processing_time, ret, agent>>

\* line 109
Issues(responses) ==
    /\ pc = "issues" /\ entry = "analyze"
    /\ \E r \in responses :
           /\ key_issues' = _extract_key_issues(r)
           /\ Called("issues", r)
    /\ pc' = "escalation"
    /\ UNCHANGED <<entry, email_content, customer_profile, sentiment_urgency,
                   intent_analysis, escalation_needed, resolution_time, analysis,
                   response_data, quality_scores, total_processing_time, ret, agent>>

\* lines 112-114
Escalation ==
    /\ pc = "escalation" /\ entry = "analyze"
    /\ LET r == _assess_escalation_need(email_content, sentiment_urgency,
                                        customer_profile)
       IN  IF r.raised
           THEN Propagate(r.value) /\ UNCHANGED escalation_needed
           ELSE /\ escalation_needed' = r.value
                /\ pc' = "resolution"
                /\ UNCHANGED ret
    /\ UNCHANGED <<entry, email_content, customer_profile, sentiment_urgency,
                   intent_analysis, key_issues, resolution_time, analysis,
                   response_data, quality_scores, total_processing_time, gateway_calls, agent>>

\* line 117
Resolution ==
    /\ pc = "resolution" /\ entry = "analyze"
    /\ LET r == _estimate_resolution_time(intent_analysis, escalation_needed)
       IN  IF r.raised
           THEN Propagate(r.value) /\ UNCHANGED resolution_time
           ELSE /\ resolution_time' = r.value
                /\ pc' = "compile"
                /\ UNCHANGED ret
    /\ UNCHANGED <<entry, email_content, customer_profile, sentiment_urgency,
                   intent_analysis, key_issues, escalation_needed, analysis,
                   response_data, quality_scores, total_processing_time, gateway_calls, agent>>

\* mutant: the result is put at the front of the history
CompilePrepend ==
    /\ pc = "compile" /\ entry = "analyze"
    /\ LET r == AnalysisResult(sentiment_urgency, intent_analysis, key_issues,
                               customer_profile, escalation_needed, resolution_time)
       IN  IF r.raised
           THEN Propagate(r.value) /\ UNCHANGED <<analysis, analysis_history>>
           ELSE /\ analysis' = r.value
                /\ analysis_history' = <<r.value>> \o analysis_history
                /\ ret' = Return(r.value)
                /\ pc' = "idle"
    /\ UNCHANGED <<entry, email_content, customer_profile, sentiment_urgency,
                   intent_analysis, key_issues, escalation_needed, resolution_time,
                   response_data, quality_scores, total_processing_time, gateway_calls,
                   conversation_traces, performance_metrics,
                   credentials, client, company_knowledge>>

\* mutant: the untracked analysis counts itself in the tracked metrics
CompileCounted ==
    /\ pc = "compile" /\ entry = "analyze"
    /\ LET r == AnalysisResult(sentiment_urgency, intent_analysis, key_issues,
                               customer_profile, escalation_needed, resolution_time)
       IN  IF r.raised
           THEN /\ Propagate(r.value)
                /\ UNCHANGED <<analysis, analysis_history, performance_metrics>>
           ELSE /\ analysis' = r.value
                /\ analysis_history' = Append(analysis_history, r.value)
                /\ performance_metrics' =
                       [performance_metrics EXCEPT !.total_conversations = @ + 1]
                /\ ret' = Return(r.value)
                /\ pc' = "idle"
    /\ UNCHANGED <<entry, email_content, customer_profile, sentiment_urgency,
                   intent_analysis, key_issues, escalation_needed, resolution_time,
                   response_data, quality_scores, total_processing_time, gateway_calls,
                   conversation_traces,
                   credentials, client, company_knowledge>>

\* lines 119-132: build the result, append it to the history, return it
Compile ==
    /\ pc = "compile" /\ entry = "analyze"
    /\ LET r == AnalysisResult(sentiment_urgency, intent_analysis, key_issues,
                               customer_profile, escalation_needed, resolution_time)
       IN  IF r.raised
           THEN Propagate(r.value) /\ UNCHANGED <<analysis, analysis_history>>
           ELSE /\ analysis' = r.value
                /\ analysis_history' = Append(analysis_history, r.value)
                /\ ret' = Return(r.value)
                /\ pc' = "idle"
    /\ UNCHANGED <<entry, email_content, customer_profile, sentiment_urgency,
                   intent_analysis, key_issues, escalation_needed, resolution_time,
                   response_data, quality_scores, total_processing_time, gateway_calls,
                   conversation_traces, performance_metrics,
                   credentials, client, company_knowledge>>

\* app.py 409-416: the caller hands the returned analysis to
\* generate_response_suggestion (customer_success_agent.py 363-424)
Respond(responses) ==
    /\ pc = "idle" /\ entry = "analyze"
    /\ ret # None /\ ~ret.raised
    /\ response_data = None
    /\ \E r \in responses :
           /\ response_data' = generate_response_suggestion(ret.value, email_content, r)
           /\ gateway_calls' =
                  IF response_data'.raised
                  THEN gateway_calls
                  ELSE Append(gateway_calls, [stage |-> "response", outcome |-> Outcome(r)])
    /\ UNCHANGED <<pc, entry, email_content, customer_profile, locals, ret, agent>>

---------------------------------------------------------------------------
(* Numbers of the tracked variant. The floats the code computes with are   *)
(* floats here; a number the code rounds with round(x, n) is the integer   *)
(* round(x, n) * 10^n.                                                     *)

\* weave_integration.py 178-186
fallback_scores ==
    [issue_coverage |-> FOfInt(7), tone_appropriateness |-> FOfInt(7),
     professionalism |-> FOfInt(8), empathy |-> FOfInt(7),
     actionability |-> FOfInt(7), personalization |-> FOfInt(6),
     overall_score |-> FOfInt(7)]

\* the six dimensions the evaluation prompt asks for, in its order
Dimensions ==
    <<"issue_coverage", "tone_appropriateness", "professionalism", "empathy",
      "actionability", "personalization">>

\* a judge's answer: the keys, each with its rating
Ratings(keys, ratings) ==
    PyDict(keys, [k \in {keys[i] : i \in 1..Len(keys)} |->
                     FOfInt(ratings[CHOOSE i \in 1..Len(keys) : keys[i] = k])])

\* sum(scores.values()): the values are added to 0 one after the other, in
\* the order of the keys
RECURSIVE SumValues(_, _)
SumValues(keys, scores) ==
    IF keys = << >> THEN FZero
    ELSE FAdd(SumValues(SubSeq(keys, 1, Len(keys) - 1), scores),
              scores[keys[Len(keys)]])

\* weave_integration.py 124-147: the exception raised while the evaluation
\* prompt is formatted, before the try block and the gateway call ("" when
\* none): the subscripts of the sentiment and the urgency, then the slice
\* key_issues[:3], which a dict does not take
EvaluationPromptError(a) ==
    IF "label" \notin DOMAIN a.sentiment THEN "KeyError"
    ELSE IF "confidence" \notin DOMAIN a.sentiment THEN "KeyError"
    ELSE IF "level" \notin DOMAIN a.urgency THEN "KeyError"
    ELSE IF a.key_issues.type # "list" THEN "TypeError"
    ELSE ""

\* weave_integration.py 120-187: the mean of every value of the judge's
\* object, not rounded, is stored under overall_score; every failure inside
\* the try (a failed call, text that is no JSON, a value with no .values(),
\* the division by the length of an empty object) gives the fallback scores
evaluate_response_quality(a, response) ==
    IF EvaluationPromptError(a) # "" THEN Raise(EvaluationPromptError(a))
    ELSE IF response.error \/ ~response.valid_json \/ response.parsed.type # "dict"
    THEN Return(fallback_scores)
    ELSE IF response.parsed.keys = << >> THEN Return(fallback_scores)
    ELSE LET scores == response.parsed
             overall_score == FDiv(SumValues(scores.keys, scores.value),
                                   FOfInt(Len(scores.keys)))
         IN  Return(DictSet(scores, "overall_score", overall_score).value)

\* weave_integration.py 386-388: the constants of the business impact
manual_analysis_time == FOfInt(15)

baseline_quality == FOfDecimal(65, 10)

cost_per_minute_agent == FOfDecimal(83, 100)

\* weave_integration.py 387, 400-404, 411: the literals 60, 1.0, 1.3 and 0.1
SecondsPerMinute == FOfInt(60)

PlainMultiplier == FOfInt(1)

UrgentMultiplier == FOfDecimal(13, 10)

OneTenth == FOfDecimal(1, 10)

\* mutant: the multiplier is raised for every escalated analysis
_calculate_business_impact_any_escalation(a, scores, processing_time) ==
    LET ai_analysis_time == FDiv(FOfInt(processing_time), SecondsPerMinute)
        time_saved == FSub(manual_analysis_time, ai_analysis_time)
        quality_improvement ==
            FMax(FZero, FSub(scores.overall_score, baseline_quality))
        cost_savings == FMul(time_saved, cost_per_minute_agent)
        satisfaction_multiplier ==
            IF a.escalation_needed
            THEN UrgentMultiplier ELSE PlainMultiplier
        estimated_satisfaction_improvement ==
            FMul(FMul(quality_improvement, OneTenth), satisfaction_multiplier)
    IN  [time_saved_minutes |-> FRoundScaled(time_saved, 100),
         cost_savings_dollars |-> FRoundScaled(cost_savings, 100),
         quality_improvement_points |-> FRoundScaled(quality_improvement, 100),
         estimated_satisfaction_improvement |->
             FRoundScaled(estimated_satisfaction_improvement, 1000),
         processing_efficiency |->
             FRoundScaled(FDiv(manual_analysis_time,
                               FMax(ai_analysis_time, OneTenth)), 10),
         business_value_score |->
             FRoundScaled(FMul(time_saved, quality_improvement), 100)]

\* mutant: the time saved is floored at 0
_calculate_business_impact_clamped(a, scores, processing_time) ==
    LET ai_analysis_time == FDiv(FOfInt(processing_time), SecondsPerMinute)
        time_saved == FMax(FZero, FSub(manual_analysis_time, ai_analysis_time))
        quality_improvement ==
            FMax(FZero, FSub(scores.overall_score, baseline_quality))
        cost_savings == FMul(time_saved, cost_per_minute_agent)
        satisfaction_multiplier ==
            IF a.escalation_needed /\ a.urgency.level \in {"High", "Critical"}
            THEN UrgentMultiplier ELSE PlainMultiplier
        estimated_satisfaction_improvement ==
            FMul(FMul(quality_improvement, OneTenth), satisfaction_multiplier)
    IN  [time_saved_minutes |-> FRoundScaled(time_saved, 100),
         cost_savings_dollars |-> FRoundScaled(cost_savings, 100),
         quality_improvement_points |-> FRoundScaled(quality_improvement, 100),
         estimated_satisfaction_improvement |->
             FRoundScaled(estimated_satisfaction_improvement, 1000),
         processing_efficiency |->
             FRoundScaled(FDiv(manual_analysis_time,
                               FMax(ai_analysis_time, OneTenth)), 10),
         business_value_score |->
             FRoundScaled(FMul(time_saved, quality_improvement), 100)]

\* mutant: the satisfaction improvement is rounded to two decimals
_calculate_business_impact_two_decimals(a, scores, processing_time) ==
    LET ai_analysis_time == FDiv(FOfInt(processing_time), SecondsPerMinute)
        time_saved == FSub(manual_analysis_time, ai_analysis_time)
        quality_improvement ==
            FMax(FZero, FSub(scores.overall_score, baseline_quality))
        cost_savings == FMul(time_saved, cost_per_minute_agent)
        satisfaction_multiplier ==
            IF a.escalation_needed /\ a.urgency.level \in {"High", "Critical"}
            THEN UrgentMultiplier ELSE PlainMultiplier
        estimated_satisfaction_improvement ==
            FMul(FMul(quality_improvement, OneTenth), satisfaction_multiplier)
    IN  [time_saved_minutes |-> FRoundScaled(time_saved, 100),
         cost_savings_dollars |-> FRoundScaled(cost_savings, 100),
         quality_improvement_points |-> FRoundScaled(quality_improvement, 100),
         estimated_satisfaction_improvement |->
             10 * FRoundScaled(estimated_satisfaction_improvement, 100),
         processing_efficiency |->
             FRoundScaled(FDiv(manual_analysis_time,
                               FMax(ai_analysis_time, OneTenth)), 10),
         business_value_score |->
             FRoundScaled(FMul(time_saved, quality_improvement), 100)]

\* weave_integration.py 382-413; processing_time in seconds (a whole number of
\* them), the scores floats; the results in hundredths, but the satisfaction
\* improvement in thousandths and the efficiency in tenths
_calculate_business_impact(a, scores, processing_time) ==
    LET ai_analysis_time == FDiv(FOfInt(processing_time), SecondsPerMinute)
        time_saved == FSub(manual_analysis_time, ai_analysis_time)
        quality_improvement ==
            FMax(FZero, FSub(scores.overall_score, baseline_quality))
        cost_savings == FMul(time_saved, cost_per_minute_agent)
        satisfaction_multiplier ==
            IF a.escalation_needed /\ a.urgency.level \in {"High", "Critical"}
            THEN UrgentMultiplier ELSE PlainMultiplier
        estimated_satisfaction_improvement ==
            FMul(FMul(quality_improvement, OneTenth), satisfaction_multiplier)
    IN  [time_saved_minutes |-> FRoundScaled(time_saved, 100),
         cost_savings_dollars |-> FRoundScaled(cost_savings, 100),
         quality_improvement_points |-> FRoundScaled(quality_improvement, 100),
         estimated_satisfaction_improvement |->
             FRoundScaled(estimated_satisfaction_improvement, 1000),
         processing_efficiency |->
             FRoundScaled(FDiv(manual_analysis_time,
                               FMax(ai_analysis_time, OneTenth)), 10),
         business_value_score |->
             FRoundScaled(FMul(time_saved, quality_improvement), 100)]

\* the seconds an analysis takes: fast, and slower than the manual baseline
ProcessingTimes == {3, 960}

\* _calculate_business_impact for the escalation flags, urgency levels and
\* overall scores the tracked analyses meet most (the fallback 7.0, the means
\* of six ratings 9.0 and 43/6, and 2.0), computed once
ImpactTable ==
    {[escalation_needed |-> escalated, level |-> level, overall_score |-> score,
      processing_time |-> t,
      impact |-> _calculate_business_impact(
                     [escalation_needed |-> escalated, urgency |-> [level |-> level]],
                     [overall_score |-> score], t)] :
         escalated \in BOOLEAN, level \in {"Low", "Medium", "High", "Critical"},
         score \in {FOfInt(7), FOfInt(9), FDiv(FOfInt(43), FOfInt(6)), FOfInt(2)},
         t \in ProcessingTimes}

\* _calculate_business_impact(a, scores, processing_time): the function
\* reads the escalation flag and the urgency level of the analysis, the
\* overall score and the processing time; a result the table holds is taken
\* from it
BusinessImpact(a, scores, processing_time) ==
    The({IF rows = {} THEN _calculate_business_impact(a, scores, processing_time)
         ELSE The({r.impact : r \in rows}) :
             rows \in {{r \in ImpactTable :
                           /\ r.escalation_needed = a.escalation_needed
                           /\ r.level = a.urgency.level
                           /\ r.overall_score = scores.overall_score
                           /\ r.processing_time = processing_time}}})

\* email_content[:200] + "..." if len(email_content) > 200 else email_content
Truncated(email) ==
    IF Len(email) > 200 THEN SubSeq(email, 1, 200) \o "..." ELSE email

\* weave_integration.py 276-300 (the clock-derived id and timestamp left out)
ConversationTrace(profile, email, a, response, scores, impact, processing_time) ==
    [customer_profile |-> profile,
     email_content |-> Truncated(email),
     analysis_results |-> [sentiment |-> a.sentiment, urgency |-> a.urgency,
                           intent |-> a.intent, key_issues |-> a.key_issues,
                           escalation_needed |-> a.escalation_needed],
     response_data |-> [response_length |-> Len(response.suggested_response),
                        tone_guidance |-> response.tone_guidance,
                        follow_up_actions |-> response.follow_up_actions],
     performance_metrics |-> [total_processing_time |-> processing_time],
     quality_scores |-> scores,
     business_impact |-> impact]

\* sum(1 for t in traces if t.analysis_results["escalation_needed"])
RECURSIVE Escalations(_)
Escalations(traces) ==
    IF Len(traces) = 0 THEN 0
    ELSE (IF Head(traces).analysis_results.escalation_needed THEN 1 ELSE 0)
         + Escalations(Tail(traces))

\* mutant: the metrics are updated before the trace is appended
_update_performance_metrics_before_append(metrics, trace, traces) ==
    LET total_conversations == metrics.total_conversations + 1
        current_avg_quality == metrics.avg_quality_score
        new_quality == trace.quality_scores.overall_score
    IN  [total_conversations |-> total_conversations,
         total_processing_time |->
             metrics.total_processing_time
             + trace.performance_metrics.total_processing_time,
         avg_quality_score |->
             FDiv(FAdd(FMul(current_avg_quality, FOfInt(total_conversations - 1)),
                       new_quality),
                  FOfInt(total_conversations)),
         escalation_rate |->
             FDiv(FOfInt(Escalations(SubSeq(traces, 1, Len(traces) - 1))),
                  FOfInt(total_conversations)),
         customer_satisfaction_estimate |-> metrics.customer_satisfaction_estimate]

\* weave_integration.py 415-432, with self.conversation_traces = traces
_update_performance_metrics(metrics, trace, traces) ==
    LET total_conversations == metrics.total_conversations + 1
        current_avg_quality == metrics.avg_quality_score
        new_quality == trace.quality_scores.overall_score
    IN  [total_conversations |-> total_conversations,
         total_processing_time |->
             metrics.total_processing_time
             + trace.performance_metrics.total_processing_time,
         avg_quality_score |->
             FDiv(FAdd(FMul(current_avg_quality, FOfInt(total_conversations - 1)),
                       new_quality),
                  FOfInt(total_conversations)),
         escalation_rate |->
             FDiv(FOfInt(Escalations(traces)), FOfInt(total_conversations)),
         customer_satisfaction_estimate |-> metrics.customer_satisfaction_estimate]

\* what the gateway can answer to the evaluation: text that is no JSON (the
\* fallback scores), the object asked for, with unequal ratings, and an
\* object with another key
QualityResponses ==
    {NotJson, Json(Ratings(Dimensions, <<7, 7, 7, 7, 7, 8>>)),
     Json(Ratings(<<"clarity">>, <<2>>))}

---------------------------------------------------------------------------
(* get_analytics_dashboard_data, weave_integration.py 434-528. The rounded *)
(* results are integers: seconds, minutes, dollars and scores in           *)
(* hundredths, the escalation rate in thousandths, the annual savings in   *)
(* dollars. The distributions, which the code does not round, are floats.  *)

RECURSIVE SeqSum(_)
SeqSum(s) == IF Len(s) = 0 THEN 0 ELSE Head(s) + SeqSum(Tail(s))

\* sum(...) of floats: they are added to 0 one after the other
RECURSIVE FSum(_)
FSum(s) ==
    IF Len(s) = 0 THEN FZero
    ELSE FAdd(FSum(SubSeq(s, 1, Len(s) - 1)), s[Len(s)])

\* list.count(x)
Count(x, s) == Cardinality({i \in 1..Len(s) : s[i] = x})

\* weave_integration.py 494-528
_get_demo_analytics_data ==
    [performance_metrics |->
         [total_conversations |-> 0, avg_processing_time_seconds |-> 320,
          avg_quality_score |-> 810, escalation_rate |-> 180],
     distribution_metrics |->
         [sentiment_distribution |->
              [Positive |-> FOfDecimal(35, 100), Neutral |-> FOfDecimal(40, 100),
               Frustrated |-> FOfDecimal(20, 100), Angry |-> FOfDecimal(5, 100)],
          urgency_distribution |->
              [Low |-> FOfDecimal(30, 100), Medium |-> FOfDecimal(45, 100),
               High |-> FOfDecimal(20, 100), Critical |-> FOfDecimal(5, 100)]],
     business_impact |->
         [total_time_saved_minutes |-> 0, total_cost_savings_dollars |-> 0,
          avg_time_saved_per_conversation |-> 1250,
          estimated_annual_savings |-> 125000],
     quality_metrics |->
         [avg_issue_coverage |-> 820, avg_tone_appropriateness |-> 840,
          avg_empathy_score |-> 790]]

\* round(sum(t.quality_scores[key] for t in traces) / len(traces), 2)
AverageScore(traces, key) ==
    FRoundScaled(FDiv(FSum([i \in 1..Len(traces) |-> traces[i].quality_scores[key]]),
                      FOfInt(Len(traces))), 100)

\* lines 440-492: the aggregates over the traces; every average divides by
\* len(traces). The time and the money each trace holds are floats with two
\* decimals, added as floats. A trace whose scores lack one of the three
\* dimensions of the quality metrics makes the subscript raise.
AnalyticsFromTraces(traces) ==
    LET n == Len(traces)
        times == [i \in 1..n |-> traces[i].performance_metrics.total_processing_time]
        overall == [i \in 1..n |-> traces[i].quality_scores.overall_score]
        sentiments == [i \in 1..n |-> traces[i].analysis_results.sentiment.label]
        urgencies == [i \in 1..n |-> traces[i].analysis_results.urgency.level]
        total_time_saved ==
            FSum([i \in 1..n |->
                     FOfDecimal(traces[i].business_impact.time_saved_minutes, 100)])
        total_cost_savings ==
            FSum([i \in 1..n |->
                     FOfDecimal(traces[i].business_impact.cost_savings_dollars, 100)])
        share(count) == FDiv(FOfInt(count), FOfInt(n))
    IN  IF n = 0 THEN Raise("ZeroDivisionError")
        ELSE IF \E i \in 1..n :
                    {"issue_coverage", "tone_appropriateness", "empathy"}
                        \ DOMAIN traces[i].quality_scores # {}
        THEN Raise("KeyError")
        ELSE Return(
            [performance_metrics |->
                 [total_conversations |-> n,
                  avg_processing_time_seconds |->
                      FRoundScaled(FDiv(FOfInt(SeqSum(times)), FOfInt(n)), 100),
                  avg_quality_score |->
                      FRoundScaled(FDiv(FSum(overall), FOfInt(n)), 100),
                  escalation_rate |->
                      FRoundScaled(share(Escalations(traces)), 1000)],
             distribution_metrics |->
                 [sentiment_distribution |->
                      [Positive |-> share(Count("Positive", sentiments)),
                       Neutral |-> share(Count("Neutral", sentiments)),
                       Frustrated |-> share(Count("Frustrated", sentiments)),
                       Angry |-> share(Count("Angry", sentiments))],
                  urgency_distribution |->
                      [Low |-> share(Count("Low", urgencies)),
                       Medium |-> share(Count("Medium", urgencies)),
                       High |-> share(Count("High", urgencies)),
                       Critical |-> share(Count("Critical", urgencies))]],
             business_impact |->
                 [total_time_saved_minutes |-> FRoundScaled(total_time_saved, 100),
                  total_cost_savings_dollars |-> FRoundScaled(total_cost_savings, 100),
                  avg_time_saved_per_conversation |->
                      FRoundScaled(FDiv(total_time_saved, FOfInt(n)), 100),
                  estimated_annual_savings |->
                      FRoundScaled(FDiv(FMul(total_cost_savings, FOfInt(365)),
                                        FOfInt(n)), 1)],
             quality_metrics |->
                 [avg_issue_coverage |-> AverageScore(traces, "issue_coverage"),
                  avg_tone_appropriateness |->
                      AverageScore(traces, "tone_appropriateness"),
                  avg_empathy_score |-> AverageScore(traces, "empathy")]])

\* lines 434-492
get_analytics_dashboard_data(traces) ==
    IF Len(traces) = 0
    THEN Return(_get_demo_analytics_data)
    ELSE AnalyticsFromTraces(traces)

---------------------------------------------------------------------------
(* analyze_customer_communication_with_full_tracking,                      *)
(* weave_integration.py 211-334: every exception is logged and re-raised   *)

TrackedStart(emails, profiles) ==
    \E email \in emails, profile \in profiles : Begin("tracked", email, profile)

\* line 234
TrackedSentiment(responses) ==
    /\ pc = "sentiment" /\ entry = "tracked"
    /\ \E r \in responses, elapsed \in Elapsed :
           /\ Called("sentiment", r)
           /\ LET result == analyze_sentiment_with_tracing(r, elapsed)
              IN  IF result.raised
                  THEN Propagate(result.value) /\ UNCHANGED sentiment_urgency
                  ELSE /\ sentiment_urgency' = result.value
                       /\ pc' = "intent"
                       /\ UNCHANGED ret
    /\ UNCHANGED <<entry, email_content, customer_profile, intent_analysis,
                   key_issues, escalation_needed, resolution_time, analysis,
                   response_data, quality_scores, total_processing_time, agent>>

\* line 237
TrackedIntent(responses) ==
    /\ pc = "intent" /\ entry = "tracked"
    /\ \E r \in responses :
           /\ Called("intent", r)
           /\ LET result == classify_intent_with_tracing(r)
              IN  IF result.raised
                  THEN Propagate(result.value) /\ UNCHANGED intent_analysis
                  ELSE /\ intent_analysis' = result.value
                       /\ pc' = "issues"
                       /\ UNCHANGED ret
    /\ UNCHANGED <<entry, email_content, customer_profile, sentiment_urgency,
                   key_issues, escalation_needed, resolution_time, analysis,
                   response_data, quality_scores, total_processing_time, agent>>

\* line 240
TrackedIssues(responses) ==
    /\ pc = "issues" /\ entry = "tracked"
    /\ \E r \in responses :
           /\ Called("issues", r)
           /\ LET result == extract_issues_with_tracing(r)
              IN  IF result.raised
                  THEN Propagate(result.value) /\ UNCHANGED key_issues
                  ELSE /\ key_issues' = result.value
                       /\ pc' = "escalation"
                       /\ UNCHANGED ret
    /\ UNCHANGED <<entry, email_content, customer_profile, sentiment_urgency,
                   intent_analysis, escalation_needed, resolution_time, analysis,
                   response_data, quality_scores, total_processing_time, agent>>

\* lines 243-251
TrackedEscalation ==
    /\ pc = "escalation" /\ entry = "tracked"
    /\ LET r == _assess_escalation_need(email_content, sentiment_urgency,
                                        customer_profile)
       IN  IF r.raised
           THEN Propagate(r.value) /\ UNCHANGED escalation_needed
           ELSE /\ escalation_needed' = r.value
                /\ pc' = "compile"
                /\ UNCHANGED ret
    /\ UNCHANGED <<entry, email_content, customer_profile, sentiment_urgency,
                   intent_analysis, key_issues, resolution_time, analysis,
                   response_data, quality_scores, total_processing_time, gateway_calls, agent>>

\* lines 254-262: the resolution time is estimated inside the constructor call
TrackedCompile ==
    /\ pc = "compile" /\ entry = "tracked"
    /\ LET t == _estimate_resolution_time(intent_analysis, escalation_needed)
           r == IF t.raised THEN t
                ELSE AnalysisResult(sentiment_urgency, intent_analysis, key_issues,
                                    customer_profile, escalation_needed, t.value)
       IN  IF r.raised
           THEN Propagate(r.value) /\ UNCHANGED <<resolution_time, analysis>>
           ELSE /\ resolution_time' = t.value
                /\ analysis' = r.value
                /\ pc' = "respond"
                /\ UNCHANGED ret
    /\ UNCHANGED <<entry, email_content, customer_profile, sentiment_urgency,
                   intent_analysis, key_issues, escalation_needed,
                   response_data, quality_scores, total_processing_time, gateway_calls, agent>>

\* line 265, _generate_tracked_response (lines 336-362)
TrackedRespond(responses) ==
    /\ pc = "respond" /\ entry = "tracked"
    /\ \E r \in responses, elapsed \in Elapsed :
           LET result == generate_response_suggestion(analysis, email_content, r)
           IN  IF result.raised
               THEN Propagate(result.value) /\ UNCHANGED <<response_data, gateway_calls>>
               ELSE /\ Called("response", r)
                    /\ response_data' =
                           Return(result.value @@ [generation_time |-> elapsed])
                    /\ pc' = "evaluate"
                    /\ UNCHANGED ret
    /\ UNCHANGED <<entry, email_content, customer_profile, locals, agent>>

\* line 268
TrackedEvaluate(responses) ==
    /\ pc = "evaluate" /\ entry = "tracked"
    /\ \E r \in responses :
           LET result == evaluate_response_quality(analysis, r)
           IN  IF result.raised
               THEN Propagate(result.value) /\ UNCHANGED <<quality_scores, gateway_calls>>
               ELSE /\ Called("quality", r)
                    /\ quality_scores' = result.value
                    /\ pc' = "store"
                    /\ UNCHANGED ret
    /\ UNCHANGED <<entry, email_content, customer_profile, sentiment_urgency,
                   intent_analysis, key_issues, escalation_needed, resolution_time,
                   analysis, response_data, total_processing_time, agent>>

\* lines 270-325: business impact, the trace, the metrics, the returned mapping
TrackedStore(times) ==
    /\ pc = "store" /\ entry = "tracked"
    /\ \E t \in times :
       \E business_impact \in {BusinessImpact(analysis, quality_scores, t)} :
           LET conversation_trace ==
                   ConversationTrace(customer_profile, email_content, analysis,
                                     response_data.value, quality_scores,
                                     business_impact, t)
               traces == Append(conversation_traces, conversation_trace)
           IN  /\ total_processing_time' = t
               /\ conversation_traces' = traces
               /\ performance_metrics' =
                      _update_performance_metrics(performance_metrics,
                                                  conversation_trace, traces)
               /\ ret' = Return([analysis |-> analysis,
                                 response_data |-> response_data.value,
                                 quality_scores |-> quality_scores,
                                 business_impact |-> business_impact,
                                 conversation_trace |-> conversation_trace,
                                 performance_metrics |-> [processing_time |-> t]])
    /\ pc' = "idle"
    /\ UNCHANGED <<entry, email_content, customer_profile, sentiment_urgency,
                   intent_analysis, key_issues, escalation_needed, resolution_time,
                   analysis, quality_scores, response_data,
                   gateway_calls, analysis_history,
                   credentials, client, company_knowledge>>

---------------------------------------------------------------------------
(* One analysis on a newly constructed agent, over every gateway answer *)

\* __init__ (customer_success_agent.py 51-60, weave_integration.py 197-209):
\* the caller replaces the agent by a new one
Construct ==
    /\ pc = "idle" /\ ret # None
    /\ pc' = "idle"
    /\ entry' = "none"
    /\ email_content' = ""
    /\ customer_profile' = None
    /\ sentiment_urgency' = None
    /\ intent_analysis' = None
    /\ key_issues' = None
    /\ escalation_needed' = FALSE
    /\ resolution_time' = ""
    /\ analysis' = None
    /\ response_data' = None
    /\ quality_scores' = None
    /\ total_processing_time' = 0
    /\ ret' = None
    /\ gateway_calls' = << >>
    /\ analysis_history' = << >>
    /\ conversation_traces' = << >>
    /\ performance_metrics' = InitialMetrics
    /\ UNCHANGED <<credentials, client, company_knowledge>>

Unused == ret = None

Next ==
    \/ Unused /\ Start(PipelineEmails, PipelineProfiles)
    \/ Sentiment(SentimentResponses)
    \/ Intent(IntentResponses)
    \/ Issues(IssueResponses)
    \/ Escalation
    \/ Resolution
    \/ Compile
    \/ Respond(ReplyResponses)
    \/ Unused /\ TrackedStart(PipelineEmails, PipelineProfiles)
    \/ TrackedSentiment(SentimentResponses)
    \/ TrackedIntent(IntentResponses)
    \/ TrackedIssues(IssueResponses)
    \/ TrackedEscalation
    \/ TrackedCompile
    \/ TrackedRespond(ReplyResponses)
    \/ TrackedEvaluate(QualityResponses)
    \/ TrackedStore({3})
    \/ Construct

Spec == Init /\ [][Next]_vars

---------------------------------------------------------------------------
(* Both entry points over every intent list, with few other inputs *)

AllIntents ==
    {"General Inquiry", "Billing Dispute", "Technical Issue", "Feature Request",
     "Account Access", "Integration Support", "Cancellation Request", "Complaint"}

AllIntentResponses ==
    {GatewayError} \cup {Json(PyList(l)) : l \in SeqsUpTo(AllIntents, MaxIntents)}

FewSentimentResponses ==
    {NotJson, Json(SentimentDict("Angry", 87, "High")),
     Json(SentimentDict("Positive", 95, "Low"))}

FewEmails == {"Please REFUND my last invoice", "Thanks for the quick help"}

FewProfiles == {None, Profile("Premium", 36, "Positive", 2)}

NextIntents ==
    \/ Unused /\ Start(FewEmails, FewProfiles)
    \/ Sentiment(FewSentimentResponses)
    \/ Intent(AllIntentResponses)
    \/ Issues({NotJson})
    \/ Escalation
    \/ Resolution
    \/ Compile
    \/ Respond({GatewayError})
    \/ Unused /\ TrackedStart(FewEmails, FewProfiles)
    \/ TrackedSentiment(FewSentimentResponses)
    \/ TrackedIntent(AllIntentResponses)
    \/ TrackedIssues({NotJson})
    \/ TrackedEscalation
    \/ TrackedCompile
    \/ TrackedRespond({GatewayError})
    \/ TrackedEvaluate({GatewayError})
    \/ TrackedStore({3})
    \/ Construct

SpecIntents == Init /\ [][NextIntents]_vars

---------------------------------------------------------------------------
(* The rules on their own: a rule is applied to arguments drawn from       *)
(* bounded sets (entry = "rule"), and ret holds what it returned           *)

Words ==
    {"CANCEL", "Cancellations", "terminated", "Refunds", "lawyers", "Illegal",
     "UNACCEPTABLE", "terrible", "Manager", "supervisor", "Escalated",
     "can", "cel"}

\* the emails of at most n words
RECURSIVE EmailsOf(_)
EmailsOf(n) ==
    IF n = 0 THEN {""}
    ELSE IF n = 1 THEN {""} \cup Words
    ELSE EmailsOf(n - 1)
         \cup {e \o " " \o w : e \in EmailsOf(n - 1) \ {""}, w \in Words}

Labels == {"Positive", "Neutral", "Frustrated", "Angry", "Upset"}

Levels == {"Low", "Medium", "High", "Critical", "Urgent"}

\* the labels and levels the escalation rule is applied to: two it tests
\* for, one it does not, one outside the prompt's vocabulary
EscalationLabels == {"Neutral", "Frustrated", "Angry", "Upset"}

EscalationLevels == {"Low", "High", "Critical", "Urgent"}

RuleProfiles ==
    {None, Profile("Premium", 36, "Positive", 2),
     Profile("Standard", 18, "Neutral", 3)}

\* the arguments of a rule are bound, nothing has been called on the agent
RuleInit ==
    /\ entry = "rule"
    /\ pc = "rule"
    /\ response_data = None
    /\ quality_scores = None
    /\ total_processing_time = 0
    /\ ret = None
    /\ gateway_calls = << >>
    /\ Constructed

\* the rule `name` is applied: entry names it from then on
Applied(name, outcome) ==
    /\ pc = "rule" /\ entry = "rule"
    /\ pc' = "idle"
    /\ entry' = name
    /\ ret' = outcome
    /\ UNCHANGED <<email_content, customer_profile, locals, response_data, agent>>

InitEscalation ==
    /\ RuleInit
    /\ email_content \in EmailsOf(MaxWords)
    /\ customer_profile \in RuleProfiles
    /\ sentiment_urgency \in
           {SentimentDict(l, 87, u) : l \in EscalationLabels, u \in EscalationLevels}
    /\ intent_analysis = None
    /\ key_issues = None
    /\ escalation_needed = FALSE
    /\ resolution_time = ""
    /\ analysis = None

ApplyEscalation ==
    /\ Applied("_assess_escalation_need",
               _assess_escalation_need(email_content, sentiment_urgency,
                                       customer_profile))
    /\ UNCHANGED gateway_calls

SpecEscalation == InitEscalation /\ [][ApplyEscalation]_vars

InitResolution ==
    /\ RuleInit
    /\ email_content = ""
    /\ customer_profile = None
    /\ sentiment_urgency = None
    /\ \/ intent_analysis \in
              {PyNumber, PyDict(<< >>, << >>)}
              \cup {PyList(l) : l \in SeqsUpTo(AllIntents, MaxIntents)}
       \/ intent_analysis \in
              {PyDict(<<"Billing Dispute">>, "Billing Dispute" :> 1),
               PyDict(<<"Account Access">>, "Account Access" :> 1),
               PyDict(<<"Integration Support", "Billing Dispute">>,
                      ("Integration Support" :> 1) @@ ("Billing Dispute" :> 1)),
               PyDict(<<"Billing Dispute", "Integration Support">>,
                      ("Integration Support" :> 1) @@ ("Billing Dispute" :> 1))}
    /\ key_issues = None
    /\ escalation_needed \in BOOLEAN
    /\ resolution_time = ""
    /\ analysis = None

ApplyResolution ==
    /\ Applied("_estimate_resolution_time",
               _estimate_resolution_time(intent_analysis, escalation_needed))
    /\ UNCHANGED gateway_calls

SpecResolution == InitResolution /\ [][ApplyResolution]_vars

ResponseIntents == {"Billing Dispute", "Technical Issue", "Feature Request"}

\* an analysis as the pipeline builds it from these stage results
AnalysisOf(email, profile, su, intents) ==
    LET escalation == _assess_escalation_need(email, su, profile).value
    IN  AnalysisResult(su, intents,
                       PyList(<<"Cannot access premium features">>), profile,
                       escalation,
                       _estimate_resolution_time(intents, escalation).value).value

InitResponse ==
    /\ RuleInit
    /\ email_content \in FewEmails
    /\ customer_profile \in {None, Profile("Premium", 36, "Positive", 2)}
    /\ sentiment_urgency \in {SentimentDict(l, 87, u) : l \in Labels, u \in Levels}
    /\ intent_analysis \in {PyList(l) : l \in SeqsUpTo(ResponseIntents, MaxIntents)}
    /\ key_issues = PyList(<<"Cannot access premium features">>)
    /\ escalation_needed = FALSE
    /\ resolution_time = ""
    /\ analysis = AnalysisOf(email_content, customer_profile, sentiment_urgency,
                             intent_analysis)

ApplyTone ==
    /\ Applied("_get_tone_guidance", _get_tone_guidance(analysis))
    /\ UNCHANGED gateway_calls

ApplyFollowUp ==
    /\ Applied("_generate_follow_up_actions",
               _generate_follow_up_actions(analysis))
    /\ UNCHANGED gateway_calls

ApplyGenerate ==
    \E r \in ReplyResponses :
        LET result == generate_response_suggestion(analysis, email_content, r)
        IN  /\ Applied("generate_response_suggestion", result)
            /\ gateway_calls' =
                   IF result.raised THEN gateway_calls
                   ELSE Append(gateway_calls,
                               [stage |-> "response", outcome |-> Outcome(r)])

NextResponse == ApplyTone \/ ApplyFollowUp \/ ApplyGenerate

SpecResponse == InitResponse /\ [][NextResponse]_vars

\* the profiles _assess_relationship_strength is applied to: the values on
\* both sides of each threshold, and each tier and previous sentiment
Tenures == {0, 12, 13, 24, 25, 36, 120}

\* the tiers of the enum and one outside it
Tiers == {"Premium", "Standard", "Basic", "Enterprise"}

PreviousSentiments == {"Positive", "Neutral", "Negative"}

TicketCounts == {0, 2, 3, 5}

InitRelationship ==
    /\ RuleInit
    /\ email_content = ""
    /\ customer_profile \in
           {None} \cup
           {Profile(t, m, p, c) : t \in Tiers, m \in Tenures,
                                  p \in PreviousSentiments, c \in TicketCounts}
    /\ sentiment_urgency = None
    /\ intent_analysis = None
    /\ key_issues = None
    /\ escalation_needed = FALSE
    /\ resolution_time = ""
    /\ analysis = None

\* _build_customer_context, its only caller, passes a profile, never None
ApplyRelationship ==
    /\ customer_profile # None
    /\ Applied("_assess_relationship_strength",
               Return(_assess_relationship_strength(customer_profile)))
    /\ UNCHANGED gateway_calls

ApplyContext ==
    /\ Applied("_build_customer_context",
               Return(_build_customer_context(customer_profile)))
    /\ UNCHANGED gateway_calls

NextRelationship == ApplyRelationship \/ ApplyContext

SpecRelationship == InitRelationship /\ [][NextRelationship]_vars

---------------------------------------------------------------------------
(* Several analyses, one after the other, on one agent: the web app's use *)
(* of analyze_customer_communication                                      *)

\* the number of analyses one agent completes
MaxCalls == 2

HistoryEmails == {"I want to Cancel my plan", "Thanks for the quick help"}

\* no profile, and two Premium profiles that differ in every other field
HistoryProfiles ==
    {None, Profile("Premium", 36, "Positive", 2),
     [name |-> "Mike Chen", tier |-> "Premium", tenure_months |-> 6,
      previous_sentiment |-> "Negative", support_tickets_count |-> 5,
      last_interaction_date |-> "2024-02-01"]}

\* an array (the analysis raises), and two objects with the same label and
\* level that differ in confidence and reasoning
HistorySentimentResponses ==
    {Json(PyList(<<>>)), Json(SentimentDict("Angry", 87, "Low")),
     Json(PyDict(<<"sentiment", "urgency">>,
                 [sentiment |-> [label |-> "Angry", confidence |-> 60],
                  urgency |-> [level |-> "Low", reasoning |-> "no deadline"]]))}

HistoryIntentResponses ==
    {Json(PyList(<<"Billing Dispute">>)), Json(PyList(<<"Technical Issue">>))}

HistoryIssueResponses ==
    {NotJson, Json(PyList(<<"Cannot access premium features">>))}

NextHistory ==
    \/ /\ Len(analysis_history) < MaxCalls
       /\ Start(HistoryEmails, HistoryProfiles)
    \/ Sentiment(HistorySentimentResponses)
    \/ Intent(HistoryIntentResponses)
    \/ Issues(HistoryIssueResponses)
    \/ Escalation
    \/ Resolution
    \/ Compile
    \/ Respond({GatewayError})

SpecHistory == Init /\ [][NextHistory]_vars

---------------------------------------------------------------------------
(* Construction: __init__ of customer_success_agent.py 51-60 and of        *)
(* weave_integration.py 197-209, followed by an analysis on the new agent  *)

Classes == {"CustomerSuccessCopilot", "WeaveTrackedCustomerSuccessCopilot"}

\* the api_key argument, and OPENAI_API_KEY: absent, empty, set
ArgumentKeys == {NoKey, Key(""), Key("sk-arg")}

EnvironKeys == {NoKey, Key(""), Key("sk-env")}

\* no agent has been constructed: none of its fields exists
Unbuilt ==
    /\ NoCall
    /\ credentials = None
    /\ client = None
    /\ company_knowledge = None
    /\ analysis_history = None
    /\ conversation_traces = None
    /\ performance_metrics = None

\* the constructor of class `c` is called
New(classes, keys, environs) ==
    /\ pc = "idle" /\ credentials = None
    /\ \E c \in classes, k \in keys, e \in environs :
           /\ entry' = c
           /\ credentials' = [api_key |-> k, environ |-> e]
    /\ pc' = "init"
    /\ UNCHANGED <<email_content, customer_profile, locals, response_data, ret,
                   gateway_calls, analysis_history, conversation_traces,
                   performance_metrics, client, company_knowledge>>

\* customer_success_agent.py 52-56
CheckKey ==
    /\ pc = "init" /\ entry \in Classes
    /\ IF Missing(ResolveKey(credentials.api_key, credentials.environ))
       THEN Propagate("ValueError")
       ELSE pc' = "client" /\ UNCHANGED ret
    /\ UNCHANGED <<entry, email_content, customer_profile, locals, response_data,
                   gateway_calls, agent>>

\* line 58
CreateClient ==
    /\ pc = "client" /\ entry \in Classes
    /\ client' = [api_key |-> ResolveKey(credentials.api_key, credentials.environ)]
    /\ pc' = "knowledge"
    /\ UNCHANGED <<entry, email_content, customer_profile, locals, response_data,
                   ret, gateway_calls, analysis_history, conversation_traces,
                   performance_metrics, credentials, company_knowledge>>

\* line 59
LoadKnowledge ==
    /\ pc = "knowledge" /\ entry \in Classes
    /\ company_knowledge' = "loaded"
    /\ pc' = "history"
    /\ UNCHANGED <<entry, email_content, customer_profile, locals, response_data,
                   ret, gateway_calls, analysis_history, conversation_traces,
                   performance_metrics, credentials, client>>

\* line 60; the base class constructor returns here
CreateHistory ==
    /\ pc = "history" /\ entry \in Classes
    /\ analysis_history' = << >>
    /\ IF entry = "CustomerSuccessCopilot"
       THEN pc' = "idle" /\ ret' = Return("agent")
       ELSE pc' = "tracking" /\ UNCHANGED ret
    /\ UNCHANGED <<entry, email_content, customer_profile, locals, response_data,
                   gateway_calls, conversation_traces, performance_metrics,
                   credentials, client, company_knowledge>>

\* weave_integration.py 200-209
InitTracking ==
    /\ pc = "tracking" /\ entry = "WeaveTrackedCustomerSuccessCopilot"
    /\ conversation_traces' = << >>
    /\ performance_metrics' = InitialMetrics
    /\ analysis_history' = << >>
    /\ pc' = "idle"
    /\ ret' = Return("agent")
    /\ UNCHANGED <<entry, email_content, customer_profile, locals, response_data,
                   gateway_calls, credentials, client, company_knowledge>>

\* the constructor has returned an agent, and nothing was called on it yet
Usable == pc = "idle" /\ entry \in Classes /\ ret = Return("agent")

NextConstruct ==
    \/ New(Classes, ArgumentKeys, EnvironKeys)
    \/ CheckKey
    \/ CreateClient
    \/ LoadKnowledge
    \/ CreateHistory
    \/ InitTracking
    \/ Usable /\ Start(FewEmails, {None})
    \/ Sentiment(FewSentimentResponses)
    \/ Intent({GatewayError})
    \/ Issues({NotJson})
    \/ Escalation
    \/ Resolution
    \/ Compile

SpecConstruct == Unbuilt /\ [][NextConstruct]_vars

---------------------------------------------------------------------------
(* Several calls, one after the other, on one tracked agent: tracked and   *)
(* untracked analyses, and the dashboard's query                           *)

\* an array and an object that lacks "sentiment" (the analysis raises), a
\* reply that is no JSON (the fallback), and the object asked for
SessionSentimentResponses ==
    {Json(PyList(<<>>)),
     Json(PyDict(<<"urgency">>,
                 [urgency |-> [level |-> "High", reasoning |-> "stated by the model"]])),
     NotJson, Json(SentimentDict("Angry", 87, "High"))}

\* an empty object (the fallback scores), the object asked for, with
\* unequal ratings, and an object with another key, which lacks the
\* dimensions the dashboard reads
SessionQualityResponses ==
    {Json(PyDict(<< >>, << >>)), Json(Ratings(Dimensions, <<7, 7, 7, 7, 7, 8>>)),
     Json(Ratings(<<"clarity">>, <<2>>))}

\* the number of analyses the agent has completed, of both kinds
Completed == Len(analysis_history) + Len(conversation_traces)

\* get_analytics_dashboard_data is called between two analyses; a second
\* query with no analysis in between returns the same data and changes
\* nothing, so it is left out
Dashboard ==
    /\ pc = "idle" /\ entry # "dashboard"
    /\ entry' = "dashboard"
    /\ ret' = get_analytics_dashboard_data(conversation_traces)
    /\ UNCHANGED <<pc, email_content, customer_profile, locals, response_data,
                   gateway_calls, agent>>

NextSession ==
    \/ Completed < MaxCalls /\ Start(HistoryEmails, {None})
    \/ Sentiment(SessionSentimentResponses)
    \/ Intent({GatewayError})
    \/ Issues({NotJson})
    \/ Escalation
    \/ Resolution
    \/ Compile
    \/ Respond({GatewayError})
    \/ Completed < MaxCalls /\ TrackedStart(HistoryEmails, {None})
    \/ TrackedSentiment(SessionSentimentResponses)
    \/ TrackedIntent({GatewayError})
    \/ TrackedIssues({NotJson})
    \/ TrackedEscalation
    \/ TrackedCompile
    \/ TrackedRespond(ReplyResponses)
    \/ TrackedEvaluate(SessionQualityResponses)
    \/ TrackedStore(ProcessingTimes)
    \/ Dashboard

SpecSession == Init /\ [][NextSession]_vars

---------------------------------------------------------------------------
(* _calculate_business_impact on its own *)

\* processing times in seconds: fast, the 0.1 minute floor, the example,
\* the manual baseline of 15 minutes and beyond
ImpactTimes == {2, 3, 6, 90, 180, 870, 899, 900, 901, 960, 1800}

\* overall scores as fractions, below, at and above the baseline of 6.5:
\* decimal numbers, and means of six ratings
ImpactScores ==
    {[num |-> 0, den |-> 1], [num |-> 6, den |-> 1], [num |-> 13, den |-> 2],
     [num |-> 651, den |-> 100], [num |-> 33, den |-> 5], [num |-> 7, den |-> 1],
     [num |-> 43, den |-> 6], [num |-> 81, den |-> 10], [num |-> 49, den |-> 6],
     [num |-> 10, den |-> 1]}

\* the float of a fraction: num / den
ImpactScore(q) == FDiv(FOfInt(q.num), FOfInt(q.den))

ImpactLabels == {"Positive", "Angry"}

ImpactLevels == {"Low", "High", "Critical"}

InitImpact ==
    /\ RuleInit
    /\ email_content \in FewEmails
    /\ customer_profile = None
    /\ sentiment_urgency \in
           {SentimentDict(l, 87, u) : l \in ImpactLabels, u \in ImpactLevels}
    /\ intent_analysis = PyList(<<"Billing Dispute">>)
    /\ key_issues = PyList(<<"Cannot access premium features">>)
    /\ escalation_needed = FALSE
    /\ resolution_time = ""
    /\ analysis = AnalysisOf(email_content, customer_profile, sentiment_urgency,
                             intent_analysis)

\* the scores and the processing time are bound, the impact is computed
ApplyImpact ==
    /\ pc = "rule" /\ entry = "rule"
    /\ \E q \in ImpactScores, t \in ImpactTimes :
           /\ quality_scores' = [fallback_scores EXCEPT !.overall_score = ImpactScore(q)]
           /\ total_processing_time' = t
           /\ ret' = Return(_calculate_business_impact(analysis, quality_scores',
                                                       total_processing_time'))
    /\ pc' = "idle"
    /\ entry' = "_calculate_business_impact"
    /\ UNCHANGED <<email_content, customer_profile, sentiment_urgency,
                   intent_analysis, key_issues, escalation_needed, resolution_time,
                   analysis, response_data, gateway_calls, agent>>

SpecImpact == InitImpact /\ [][ApplyImpact]_vars

---------------------------------------------------------------------------
(* One analysis and its reply, over sentiment labels and urgency levels   *)
(* inside and outside the enums of the prompt                             *)

\* labels of the enum, a label outside it, and a label in another letter case
PropagatedLabels == <<"Angry", "Frustrated", "Neutral", "Upset", "angry">>

PropagatedLevels == <<"High", "Critical", "Low", "Urgent", "HIGH">>

\* the reply with label i and level j; its confidence (0.11 to 0.55) tells
\* the replies apart
TaggedSentiment(i, j) ==
    Json(SentimentDict(PropagatedLabels[i], 10 * i + j, PropagatedLevels[j]))

\* a failed call, an object that lacks "urgency", and the tagged replies
PropagatedSentimentResponses ==
    {GatewayError,
     Json(PyDict(<<"sentiment">>, [sentiment |-> [label |-> "Angry", confidence |-> 90]]))}
    \cup {TaggedSentiment(i, j) : i \in 1..Len(PropagatedLabels),
                                  j \in 1..Len(PropagatedLevels)}

NextPropagation ==
    \/ Unused /\ Start(PipelineEmails, PipelineProfiles)
    \/ Sentiment(PropagatedSentimentResponses)
    \/ Intent({Json(PyList(<<"Technical Issue">>))})
    \/ Issues({NotJson})
    \/ Escalation
    \/ Resolution
    \/ Compile
    \/ Respond(ReplyResponses)

SpecPropagation == Init /\ [][NextPropagation]_vars

---------------------------------------------------------------------------
(* The two entry points called one after the other on one agent, with the *)
(* same arguments, the gateway giving both the same replies                *)

\* a failed call, text that is no JSON, a number, and the lists over two
\* intents, repetitions included
EntryPointIntentResponses ==
    {GatewayError, NotJson, Json(PyNumber)}
    \cup {Json(PyList(l)) :
              l \in SeqsUpTo({"Billing Dispute", "Technical Issue"}, MaxIntents)}

\* self.client as a stub: chat.completions.create answers the call of each
\* of the three classification stages with one fixed reply, at every call
StubClient(r1, r2, r3) ==
    [api_key |-> Key("sk-env"),
     replies |-> [sentiment |-> r1, intent |-> r2, issues |-> r3]]

\* the state after construction, the client being a stub
InitEntryPoints ==
    /\ NoCall
    /\ credentials = AppCredentials
    /\ client \in {StubClient(r1, r2, r3) :
                       r1 \in SentimentResponses, r2 \in EntryPointIntentResponses,
                       r3 \in IssueResponses}
    /\ company_knowledge = "loaded"
    /\ analysis_history = << >>
    /\ conversation_traces = << >>
    /\ performance_metrics = InitialMetrics

\* analyze_customer_communication has returned or raised: the caller passes
\* the same email and profile to
\* analyze_customer_communication_with_full_tracking
TrackedRestart ==
    /\ entry = "analyze" /\ ret # None
    /\ Begin("tracked", email_content, customer_profile)

NextEntryPoints ==
    \/ Unused /\ entry = "none" /\ Start(PipelineEmails, PipelineProfiles)
    \/ Sentiment({client.replies.sentiment})
    \/ Intent({client.replies.intent})
    \/ Issues({client.replies.issues})
    \/ Escalation
    \/ Resolution
    \/ Compile
    \/ TrackedRestart
    \/ TrackedSentiment({client.replies.sentiment})
    \/ TrackedIntent({client.replies.intent})
    \/ TrackedIssues({client.replies.issues})
    \/ TrackedEscalation
    \/ TrackedCompile
    \/ TrackedRespond(ReplyResponses)
    \/ TrackedEvaluate({GatewayError})
    \/ TrackedStore({3})

SpecEntryPoints == InitEntryPoints /\ [][NextEntryPoints]_vars

---------------------------------------------------------------------------
(* Claims *)

TriggerKeywords ==
    {"cancel", "cancellation", "terminate", "refund", "lawyer", "legal",
     "unacceptable", "terrible", "manager", "supervisor", "escalate"}

HasKeyword(email) ==
    LET lowered == StrLower(email)
    IN  \E k \in TriggerKeywords : StrContains(k, lowered)

Negative(label) == label \in {"Frustrated", "Angry"}

HighUrgency(level) == level \in {"High", "Critical"}

\* C1: _assess_escalation_need returns a boolean, which is true exactly when
\* the lower-cased email contains one of the eleven keywords, or the urgency
\* is High or Critical and the sentiment Frustrated or Angry, or a profile of
\* tier Premium is supplied and the sentiment is Frustrated or Angry.
C1_EscalationRule ==
    entry = "_assess_escalation_need" =>
        /\ ~ret.raised
        /\ ret.value \in BOOLEAN
        /\ ret.value =
               (\/ HasKeyword(email_content)
                \/ /\ HighUrgency(sentiment_urgency.value.urgency.level)
                   /\ Negative(sentiment_urgency.value.sentiment.label)
                \/ /\ customer_profile # None
                   /\ customer_profile.tier = "Premium"
                   /\ Negative(sentiment_urgency.value.sentiment.label))

\* a Premium customer, frustrated, low urgency, no keyword: escalated
C1_Witness ==
    /\ entry = "_assess_escalation_need"
    /\ ~HasKeyword(email_content)
    /\ email_content # ""
    /\ customer_profile # None
    /\ customer_profile.tier = "Premium"
    /\ sentiment_urgency.value.sentiment.label = "Frustrated"
    /\ sentiment_urgency.value.urgency.level = "Low"
    /\ ret = Return(TRUE)

\* analyze_customer_communication has returned an AnalysisResult
Returned == entry = "analyze" /\ pc = "idle" /\ ret # None /\ ~ret.raised

\* C2: an AnalysisResult returned by analyze_customer_communication for an
\* email that contains "cancel" in any letter case has escalation_needed true,
\* whatever stage 1 returned and whatever profile was supplied.
C2_CancelEscalates ==
    (Returned /\ StrContains("cancel", StrLower(email_content)))
        => ret.value.escalation_needed = TRUE

\* "CANCELLED" in upper case inside a longer word, stage 1 on its fallback,
\* no profile
C2_Witness ==
    /\ Returned
    /\ email_content = "Our order was CANCELLED twice"
    /\ gateway_calls[1].outcome = "text"
    /\ customer_profile = None
    /\ ret.value.sentiment.label = "Neutral"
    /\ ret.value.escalation_needed = TRUE

\* C3: in every AnalysisResult of either entry point, escalation_needed is
\* true exactly when estimated_resolution_time is "< 2 hours (escalated)".
C3_EscalatedTime ==
    analysis # None =>
        (analysis.escalation_needed
             <=> analysis.estimated_resolution_time = "< 2 hours (escalated)")

\* the tracked entry point, an intent with a long estimate, escalated
C3_Witness ==
    /\ entry = "tracked"
    /\ analysis # None
    /\ analysis.escalation_needed
    /\ analysis.intent = PyList(<<"Integration Support", "Billing Dispute">>)
    /\ analysis.estimated_resolution_time = "< 2 hours (escalated)"

\* C4: whatever the gateway answers at the three stages,
\* analyze_customer_communication returns and raises nothing.
C4_NeverRaises ==
    (entry = "analyze" /\ pc = "idle" /\ ret # None) => ~ret.raised

\* C5: when stage 1 fails (gateway error or unparsable text),
\* analyze_customer_communication returns an AnalysisResult with sentiment
\* Neutral at confidence 0.5 and urgency Medium, whatever stages 2 and 3 return.
C5_SentimentFallback ==
    (/\ entry = "analyze" /\ pc = "idle" /\ ret # None
     /\ gateway_calls[1].outcome \in {"error", "text"})
        => /\ ~ret.raised
           /\ ret.value.sentiment.label = "Neutral"
           /\ ret.value.sentiment.confidence = 50
           /\ ret.value.urgency.level = "Medium"

\* generate_response_suggestion returned after its gateway call failed
GenerationFailed ==
    /\ response_data # None
    /\ ~response_data.raised
    /\ \E i \in 1..Len(gateway_calls) :
           gateway_calls[i] = [stage |-> "response", outcome |-> "error"]

Apology ==
    "I apologize for the delay in my response. I'm looking into your inquiry and will get back to you shortly with a resolution."

\* C6 as stated: when the generation call fails, the mapping holds the
\* apologetic reply and tone_guidance = _get_tone_guidance(analysis).
C6_RealToneOnFailure ==
    GenerationFailed =>
        /\ response_data.value.suggested_response = Apology
        /\ response_data.value.tone_guidance = _get_tone_guidance(analysis).value

\* C6 amended: when the generation call fails, the mapping holds the
\* apologetic reply, the fixed tone guidance "Professional and apologetic"
\* and a follow_up_actions string that reports the error; neither is computed
\* from the analysis.
C6_FixedToneOnFailure ==
    GenerationFailed =>
        /\ response_data.value.suggested_response = Apology
        /\ response_data.value.tone_guidance = "Professional and apologetic"
        /\ response_data.value.follow_up_actions
               = "Error generating actions: Connection error."

\* an angry customer at high urgency: the tone rule would ask for the most
\* empathetic tone
C6_Witness ==
    /\ GenerationFailed
    /\ analysis.sentiment.label = "Angry"
    /\ analysis.urgency.level = "High"
    /\ response_data.value.tone_guidance = "Professional and apologetic"

ResolutionStrings ==
    {"< 2 hours", "24-48 hours", "4-24 hours", "Logged for future development",
     "< 4 hours", "1-3 business days", "< 24 hours", "< 2 hours (escalated)"}

\* C7: in every AnalysisResult of either entry point,
\* estimated_resolution_time is a string of the lookup table or
\* "< 2 hours (escalated)".
C7_ResolutionStrings ==
    analysis # None => analysis.estimated_resolution_time \in ResolutionStrings

\* an unknown label twice, no escalation
C7_Witness ==
    /\ analysis # None
    /\ analysis.intent = PyList(<<"Complaint", "Complaint">>)
    /\ ~analysis.escalation_needed
    /\ analysis.estimated_resolution_time = "< 2 hours"

\* the longest time an estimate allows, in hours (0: it names no time)
Hours(estimate) ==
    CASE estimate = "< 2 hours" -> 2
      [] estimate = "< 4 hours" -> 4
      [] estimate = "4-24 hours" -> 24
      [] estimate = "< 24 hours" -> 24
      [] estimate = "24-48 hours" -> 48
      [] estimate = "1-3 business days" -> 72
      [] OTHER -> 0

\* C8: without escalation, _estimate_resolution_time returns an estimate at
\* least as long as the table's estimate of every detected intent.
C8_LongestEstimate ==
    (/\ entry = "_estimate_resolution_time"
     /\ ~escalation_needed
     /\ intent_analysis.type = "list") =>
        \A i \in 1..Len(intent_analysis.value) :
            intent_analysis.value[i] \in DOMAIN time_estimates
                => Hours(ret.value) >= Hours(time_estimates[intent_analysis.value[i]])

\* the intent list with its elements i and j exchanged
Swapped(l, i, j) == [k \in 1..Len(l) |-> IF k = i THEN l[j] ELSE IF k = j THEN l[i] ELSE l[k]]

\* the analysis the pipeline builds from an intent list, no profile
RuleAnalysis(intents, escalation) ==
    [sentiment |-> [label |-> "Neutral", confidence |-> 50],
     urgency |-> [level |-> "Medium", reasoning |-> ""],
     intent |-> PyList(intents),
     key_issues |-> PyList(<< >>),
     customer_context |-> [profile_available |-> FALSE],
     escalation_needed |-> escalation,
     estimated_resolution_time |->
         _estimate_resolution_time(PyList(intents), escalation).value]

\* C9: exchanging two intents of the list changes neither the string
\* _estimate_resolution_time returns nor the string
\* _generate_follow_up_actions returns.
C9_OrderIrrelevant ==
    (entry = "_estimate_resolution_time" /\ intent_analysis.type = "list") =>
        \A i, j \in 1..Len(intent_analysis.value) :
            LET swapped == Swapped(intent_analysis.value, i, j)
            IN  /\ _estimate_resolution_time(PyList(swapped), escalation_needed) = ret
                /\ _generate_follow_up_actions(RuleAnalysis(swapped, escalation_needed))
                       = _generate_follow_up_actions(
                             RuleAnalysis(intent_analysis.value, escalation_needed))

\* C10: _get_tone_guidance is the four-way table over (label, level) and
\* reads nothing else of the analysis.
C10_ToneTable ==
    entry = "_get_tone_guidance" =>
        LET label == analysis.sentiment.label
            level == analysis.urgency.level
        IN  ret.value =
                IF Negative(label) /\ HighUrgency(level)
                THEN "Extremely empathetic, formal, and solution-focused. Acknowledge frustration explicitly."
                ELSE IF Negative(label)
                THEN "Empathetic and professional. Focus on understanding and resolving concerns."
                ELSE IF HighUrgency(level)
                THEN "Professional and urgent. Emphasize quick resolution timeline."
                ELSE "Friendly and professional. Maintain positive relationship tone."

\* a label outside the enum at Critical urgency, escalated, Premium tier
C10_Witness ==
    /\ entry = "_get_tone_guidance"
    /\ analysis.sentiment.label = "Upset"
    /\ analysis.urgency.level = "Critical"
    /\ analysis.escalation_needed
    /\ DictGet(analysis.customer_context, "tier", "") = "Premium"
    /\ ret = Return("Professional and urgent. Emphasize quick resolution timeline.")

\* the fixed list of actions with the condition of each, for an analysis
ActionTable(a) ==
    << <<a.escalation_needed, "[siren] Escalate to manager immediately">>,
       <<\E i \in 1..Len(a.intent.value) : a.intent.value[i] = "Billing Dispute",
         "[money] Review billing history and usage">>,
       <<\E i \in 1..Len(a.intent.value) : a.intent.value[i] = "Technical Issue",
         "[wrench] Engage engineering team for technical review">>,
       <<\E i \in 1..Len(a.intent.value) : a.intent.value[i] = "Feature Request",
         "[bulb] Log feature request in product backlog">>,
       <<a.customer_context.profile_available /\ a.customer_context.tier = "Premium",
         "[star] Apply premium support SLA (< 4 hour response)">>,
       <<TRUE, "[clock] Follow up within " \o a.estimated_resolution_time>> >>

\* the texts of the rows whose condition holds, in the order of the table
RECURSIVE Kept(_)
Kept(table) ==
    IF table = << >> THEN << >>
    ELSE (IF Head(table)[1] THEN <<Head(table)[2]>> ELSE << >>) \o Kept(Tail(table))

StartsWith(s, prefix) ==
    Len(prefix) <= Len(s) /\ SubSeq(s, 1, Len(prefix)) = prefix

EndsWith(s, suffix) ==
    Len(suffix) <= Len(s) /\ SubSeq(s, Len(s) - Len(suffix) + 1, Len(s)) = suffix

\* C11: the string _generate_follow_up_actions returns is the " | "-joined
\* subsequence of the six fixed actions whose condition holds, in the fixed
\* order; it ends with the follow-up segment carrying the estimated
\* resolution time and begins with the escalate segment when escalated.
C11_FollowUpActions ==
    entry = "_generate_follow_up_actions" =>
        /\ ret.value = StrJoin(" | ", Kept(ActionTable(analysis)))
        /\ EndsWith(ret.value,
                    "[clock] Follow up within " \o analysis.estimated_resolution_time)
        /\ (Len(Kept(ActionTable(analysis))) > 1 =>
                EndsWith(ret.value,
                         " | [clock] Follow up within "
                             \o analysis.estimated_resolution_time))
        /\ (analysis.escalation_needed =>
                StartsWith(ret.value, "[siren] Escalate to manager immediately | "))

\* escalated Premium customer with a feature request and a billing dispute,
\* detected in the other order: five segments
C11_Witness ==
    /\ entry = "_generate_follow_up_actions"
    /\ analysis.escalation_needed
    /\ analysis.intent.value = <<"Feature Request", "Billing Dispute">>
    /\ analysis.customer_context.profile_available
    /\ ret = Return("[siren] Escalate to manager immediately | [money] Review billing history and usage | [bulb] Log feature request in product backlog | [star] Apply premium support SLA (< 4 hour response) | [clock] Follow up within < 2 hours (escalated)")

\* the points _assess_relationship_strength accumulates for a profile
RelationshipScore(p) ==
    (CASE p.tenure_months > 24 -> 2 [] p.tenure_months \in 13..24 -> 1 [] OTHER -> 0)
    + (CASE p.tier = "Premium" -> 2 [] p.tier = "Standard" -> 1 [] OTHER -> 0)
    + (CASE p.previous_sentiment = "Positive" -> 2
         [] p.previous_sentiment = "Neutral" -> 1 [] OTHER -> 0)
    + (CASE p.support_tickets_count < 3 -> 1 [] OTHER -> 0)

\* C12: _assess_relationship_strength returns Strong for a score of at least
\* 6, Moderate for 4 or 5 and Weak below, the score being the sum of the
\* tenure, tier, previous-sentiment and ticket points.
C12_RelationshipStrength ==
    entry = "_assess_relationship_strength" =>
        LET score == RelationshipScore(customer_profile)
        IN  /\ score >= 6 => ret = Return("Strong")
            /\ score \in 4..5 => ret = Return("Moderate")
            /\ score < 4 => ret = Return("Weak")

\* tenure 36, Premium, Positive, 2 tickets: score 7, Strong
C12_Witness ==
    /\ entry = "_assess_relationship_strength"
    /\ customer_profile = Profile("Premium", 36, "Positive", 2)
    /\ RelationshipScore(customer_profile) = 7
    /\ ret = Return("Strong")

\* the three classification stages, in the order of the pipeline
StageNames == <<"sentiment", "intent", "issues">>

\* the stages of the classification calls issued so far by the running call
StageCalls ==
    LET calls == SelectSeq(gateway_calls,
                           LAMBDA c : c.stage \in {"sentiment", "intent", "issues"})
    IN  [i \in 1..Len(calls) |-> calls[i].stage]

Analysing == entry \in {"analyze", "tracked"}

\* the classification calls are a prefix of the three stages, as long as the
\* position of the call says, and a stage's result exists only after its call
StagesInOrder ==
    Analysing =>
        /\ StageCalls = SubSeq(StageNames, 1, Len(StageCalls))
        /\ pc = "sentiment" => Len(StageCalls) = 0
        /\ pc = "intent" => Len(StageCalls) = 1
        /\ pc = "issues" => Len(StageCalls) = 2
        /\ pc \in {"escalation", "resolution", "compile", "respond", "evaluate",
                    "store"} => Len(StageCalls) = 3
        /\ (pc = "idle" /\ ~ret.raised) => Len(StageCalls) = 3
        /\ sentiment_urgency # None => Len(StageCalls) >= 1
        /\ intent_analysis # None => Len(StageCalls) >= 2 /\ sentiment_urgency # None
        /\ key_issues # None => Len(StageCalls) = 3 /\ intent_analysis # None

\* a step of the escalation assessment has the three stage results, a step
\* that sets the resolution time comes after it, and a step issues at most
\* one gateway call
StepsInOrder ==
    /\ (Analysing /\ pc = "escalation" /\ pc' # "escalation") =>
           /\ sentiment_urgency # None /\ intent_analysis # None /\ key_issues # None
           /\ Len(StageCalls) = 3
    /\ (Analysing /\ resolution_time' # resolution_time /\ resolution_time' # "") =>
           /\ intent_analysis # None
           /\ pc \in {"resolution", "compile"}
    /\ gateway_calls' # gateway_calls =>
           \/ gateway_calls' = << >>
           \/ /\ Len(gateway_calls') = Len(gateway_calls) + 1
              /\ SubSeq(gateway_calls', 1, Len(gateway_calls)) = gateway_calls

\* C13: both entry points run sentiment+urgency, intent, issues, escalation,
\* resolution time in this order; each of the three gateway calls is issued
\* exactly once per analysis, also after a failure; escalation is computed
\* after the sentiment result exists and the resolution time after the
\* intents and the escalation flag exist.
C13_StageOrder == []StagesInOrder /\ [][StepsInOrder]_vars

\* an analysis returned although the intent call failed: three calls
C13_Witness ==
    /\ Returned
    /\ Len(gateway_calls) = 3
    /\ gateway_calls[1].stage = "sentiment"
    /\ gateway_calls[2] = [stage |-> "intent", outcome |-> "error"]
    /\ gateway_calls[3].stage = "issues"
    /\ resolution_time # ""

\* a step that ends a call of analyze_customer_communication
Ends == entry = "analyze" /\ pc # "idle" /\ pc' = "idle"

\* the history changes only by the append of the value a call returns, made
\* by the step that ends the call after its five stages; a call that raises
\* leaves the history as it was
HistorySteps ==
    /\ analysis_history' # analysis_history =>
           /\ Ends /\ ~ret'.raised
           /\ sentiment_urgency # None /\ intent_analysis # None /\ key_issues # None
           /\ resolution_time # ""
           /\ Len(StageCalls) = 3
    /\ (Ends /\ ~ret'.raised) =>
           /\ Len(analysis_history') = Len(analysis_history) + 1
           /\ SubSeq(analysis_history', 1, Len(analysis_history)) = analysis_history
           /\ analysis_history'[Len(analysis_history')] = ret'.value
    /\ (Ends /\ ret'.raised) => analysis_history' = analysis_history

\* C14: analysis_history holds the results of the completed calls of
\* analyze_customer_communication in call order, each identical to the value
\* returned; a call only appends, after its five stages, and a call that
\* raises appends nothing.
C14_HistoryAppendOnly ==
    /\ [](Returned => /\ analysis_history # << >>
                      /\ analysis_history[Len(analysis_history)] = ret.value)
    /\ [][HistorySteps]_vars

\* the second completed call returned a result other than the first one's
C14_Witness ==
    /\ Returned
    /\ Len(analysis_history) = 2
    /\ analysis_history[2] = ret.value
    /\ analysis_history[1] # analysis_history[2]

\* the tier of the profile handed to the analysis, "" without a profile
TierOf(profile) == IF profile = None THEN "" ELSE profile.tier

\* the flag as a function of the four values
EscalationOf(email, label, level, tier) ==
    \/ HasKeyword(email)
    \/ HighUrgency(level) /\ Negative(label)
    \/ tier = "Premium" /\ Negative(label)

\* once assessed, the flag is not changed by the rest of the call and is
\* the one the result carries
FlagKept ==
    (entry = "analyze" /\ pc \in {"resolution", "compile"}) =>
        /\ escalation_needed' = escalation_needed
        /\ (pc' = "idle" /\ ~ret'.raised) =>
               ret'.value.escalation_needed = escalation_needed

\* C15: escalation_needed of a returned AnalysisResult is determined by the
\* email text, the sentiment label, the urgency level and the profile tier,
\* whatever the intents, the issues, the confidence, the reasoning, the
\* other profile fields and the history; no step after the assessment
\* changes it.
C15_EscalationDependsOnFour ==
    /\ [](Returned =>
             ret.value.escalation_needed =
                 EscalationOf(email_content, ret.value.sentiment.label,
                              ret.value.urgency.level, TierOf(customer_profile)))
    /\ [][FlagKept]_vars

\* two results in the history that agree on label, level and tier and differ
\* in intents, issues, confidence, reasoning and the other profile fields:
\* both escalated, the second without a keyword
C15_Witness ==
    /\ Returned
    /\ Len(analysis_history) = 2
    /\ ~HasKeyword(email_content)
    /\ LET a == analysis_history[1]
           b == analysis_history[2]
       IN  /\ a.sentiment.label = b.sentiment.label
           /\ a.urgency.level = b.urgency.level
           /\ a.customer_context.profile_available
           /\ b.customer_context.profile_available
           /\ a.customer_context.tier = b.customer_context.tier
           /\ a.customer_context.customer_name # b.customer_context.customer_name
           /\ a.customer_context.tenure # b.customer_context.tenure
           /\ a.intent # b.intent
           /\ a.key_issues # b.key_issues
           /\ a.sentiment.confidence # b.sentiment.confidence
           /\ a.urgency.reasoning # b.urgency.reasoning
           /\ a.escalation_needed /\ b.escalation_needed

\* the i-th gateway call of the running analysis failed: the call raised, or
\* its text is not JSON
FailedCall(i) ==
    Len(gateway_calls) >= i /\ gateway_calls[i].outcome \in {"error", "text"}

ParsedCall(i) == Len(gateway_calls) >= i /\ gateway_calls[i].outcome = "json"

\* the values json.loads yields for the replies in a set
ParsedOf(responses) == {r.parsed : r \in {x \in responses : Outcome(x) = "json"}}

\* the stage results after a failed intent or issue call
FallbacksInPlace ==
    Analysing =>
        /\ FailedCall(2) => intent_analysis = PyList(<<"General Inquiry">>)
        /\ FailedCall(3) => key_issues = PyList(<<"Unable to extract specific issues">>)
        /\ (ParsedCall(2) /\ intent_analysis # None) =>
               intent_analysis \in ParsedOf(IntentResponses)
        /\ (ParsedCall(3) /\ key_issues # None) =>
               key_issues \in ParsedOf(IssueResponses)
        /\ (entry = "analyze" /\ ParsedCall(1)) =>
               sentiment_urgency \in ParsedOf(SentimentResponses)

\* the step of a failed intent or issue call goes on to the next stage and
\* leaves the results of the other stages alone
FallbackSteps ==
    /\ (Analysing /\ pc = "intent" /\ FailedCall(2)') =>
           /\ pc' = "issues" /\ ret' = None
           /\ UNCHANGED <<sentiment_urgency, key_issues>>
    /\ (Analysing /\ pc = "issues" /\ FailedCall(3)') =>
           /\ pc' = "escalation" /\ ret' = None
           /\ UNCHANGED <<sentiment_urgency, intent_analysis>>

\* C16: when the gateway call of the intent stage or of the issue stage
\* raises or returns text that is not JSON, the stage yields its fixed
\* fallback list and does not raise, and the results of the other stages
\* are the values the gateway returned.
C16_StageFallbacks == []FallbacksInPlace /\ [][FallbackSteps]_vars

\* the intent call failed, the other two answered: the result holds the
\* intent fallback next to the parsed sentiment and issues
C16_Witness ==
    /\ Returned
    /\ ParsedCall(1) /\ FailedCall(2) /\ ParsedCall(3)
    /\ ret.value.intent = PyList(<<"General Inquiry">>)
    /\ ret.value.key_issues =
           PyList(<<"Cannot access premium features", "Incorrect billing">>)
    /\ ret.value.sentiment.label = "Angry"

\* neither the argument nor the environment holds a key
NoKeyAnywhere ==
    /\ credentials # None
    /\ ~credentials.api_key.given \/ credentials.api_key.value = ""
    /\ ~credentials.environ.given \/ credentials.environ.value = ""

\* no field of an agent exists
NoAgent ==
    /\ client = None /\ company_knowledge = None /\ analysis_history = None
    /\ conversation_traces = None /\ performance_metrics = None

\* the constructor has ended with the configuration error
ConfigurationError == entry \in Classes /\ pc = "idle" /\ ret = Raise("ValueError")

\* where construction stands for each kind of credentials
ConstructionOutcome ==
    /\ ConfigurationError => NoKeyAnywhere /\ NoAgent
    /\ (entry \in Classes /\ pc # "init" /\ NoKeyAnywhere) => ConfigurationError
    /\ (entry \in Classes /\ credentials # None /\ ~NoKeyAnywhere) =>
           (ret = None \/ ret = Return("agent"))
    /\ Analysing => client # None /\ ~NoKeyAnywhere

\* the first step of a constructor without a key raises, and creates nothing
RaisedAtOnce ==
    (entry \in Classes /\ pc = "init" /\ NoKeyAnywhere) =>
        /\ ret' = Raise("ValueError") /\ pc' = "idle"
        /\ NoAgent /\ NoAgent'

\* C17: constructing either class without an api_key argument and without
\* OPENAI_API_KEY raises the configuration error before the client, the
\* company knowledge and the history list exist, and no agent is usable
\* afterwards; with a key from either source the error is not raised.
C17_ConfigurationError == []ConstructionOutcome /\ [][RaisedAtOnce]_vars

\* the tracked class, no argument, no variable in the environment
C17_Witness ==
    /\ entry = "WeaveTrackedCustomerSuccessCopilot"
    /\ credentials = [api_key |-> NoKey, environ |-> NoKey]
    /\ ret = Raise("ValueError")
    /\ NoAgent

\* the demo constants of the four groups
DemoConstants ==
    [performance_metrics |->
         [total_conversations |-> 0, avg_processing_time_seconds |-> 320,
          avg_quality_score |-> 810, escalation_rate |-> 180],
     business_impact |->
         [total_time_saved_minutes |-> 0, total_cost_savings_dollars |-> 0,
          avg_time_saved_per_conversation |-> 1250,
          estimated_annual_savings |-> 125000],
     quality_metrics |->
         [avg_issue_coverage |-> 820, avg_tone_appropriateness |-> 840,
          avg_empathy_score |-> 790]]

\* x is num/den rounded to the nearest integer
Rounds(x, num, den) == 2 * den * x - den <= 2 * num /\ 2 * num <= 2 * den * x + den

\* the number of traces of an escalated analysis
EscalatedTraces ==
    Cardinality({i \in 1..Len(conversation_traces) :
                     conversation_traces[i].analysis_results.escalation_needed})

\* the sum of F over the traces
TotalOf(F(_)) ==
    LET RECURSIVE Upto(_)
        Upto(k) == IF k = 0 THEN 0 ELSE Upto(k - 1) + F(conversation_traces[k])
    IN  Upto(Len(conversation_traces))

SecondsOf(t) == t.performance_metrics.total_processing_time

\* six times the overall score, a whole number: the overall score of a trace
\* is the mean of six whole ratings or the fallback 7.0
SixfoldOverallOf(t) == FRoundScaled(FMul(t.quality_scores.overall_score, FOfInt(6)), 1)

TimeSavedOf(t) == t.business_impact.time_saved_minutes

CostSavedOf(t) == t.business_impact.cost_savings_dollars

\* C18: get_analytics_dashboard_data returns the demo constants, with
\* total_conversations 0, exactly when there is no trace, without dividing
\* by the number of traces; with traces it returns the aggregates over
\* them, total_conversations being the number of traces.
\* Refuted by a trace whose quality scores are a judge reply without
\* issue_coverage, tone_appropriateness or empathy: the call raises KeyError.
C18_DashboardData ==
    entry = "dashboard" =>
        LET n == Len(conversation_traces)
            demo == /\ ret.value.performance_metrics = DemoConstants.performance_metrics
                    /\ ret.value.business_impact = DemoConstants.business_impact
                    /\ ret.value.quality_metrics = DemoConstants.quality_metrics
        IN  /\ ~ret.raised
            /\ demo <=> n = 0
            /\ ret.value.performance_metrics.total_conversations = n
            /\ n > 0 =>
                   LET p == ret.value.performance_metrics
                       b == ret.value.business_impact
                   IN  /\ Rounds(p.avg_processing_time_seconds,
                                 TotalOf(SecondsOf) * 100, n)
                       /\ Rounds(p.avg_quality_score,
                                 TotalOf(SixfoldOverallOf) * 100, 6 * n)
                       /\ Rounds(p.escalation_rate, EscalatedTraces * 1000, n)
                       /\ b.total_time_saved_minutes = TotalOf(TimeSavedOf)
                       /\ b.total_cost_savings_dollars = TotalOf(CostSavedOf)
                       /\ Rounds(b.avg_time_saved_per_conversation,
                                 TotalOf(TimeSavedOf), n)

\* the satisfaction multiplier in tenths: 1.3 for an escalated analysis of
\* High or Critical urgency, 1.0 otherwise
MultiplierOf(a) ==
    IF a.escalation_needed /\ HighUrgency(a.urgency.level) THEN 13 ELSE 10

\* the overall score bound by the step, as the fraction it was made from
OverallFraction ==
    CHOOSE q \in ImpactScores : ImpactScore(q) = quality_scores.overall_score

\* max(0, overall_score - 6.5) as a fraction
Improvement ==
    LET q == OverallFraction
    IN  [num |-> IF 2 * q.num > 13 * q.den THEN 2 * q.num - 13 * q.den ELSE 0,
         den |-> 2 * q.den]

\* C19: _calculate_business_impact returns, rounded, time_saved = 15 -
\* processing_time/60, cost_savings = time_saved * 0.83, quality_improvement
\* = max(0, overall_score - 6.5), the satisfaction improvement
\* quality_improvement * 0.1 * multiplier with multiplier 1.3 exactly for an
\* escalated analysis of High or Critical urgency, processing_efficiency =
\* 15 / max(processing_time/60, 0.1) and business_value_score = time_saved *
\* quality_improvement.
C19_BusinessImpact ==
    entry = "_calculate_business_impact" =>
        LET t == total_processing_time
            floor == IF t > 6 THEN t ELSE 6
            r == ret.value
        IN  /\ Rounds(r.time_saved_minutes, (900 - t) * 100, 60)
            /\ Rounds(r.cost_savings_dollars, (900 - t) * 83, 60)
            /\ Rounds(r.quality_improvement_points,
                      Improvement.num * 100, Improvement.den)
            /\ Rounds(r.estimated_satisfaction_improvement,
                      Improvement.num * MultiplierOf(analysis) * 10, Improvement.den)
            /\ Rounds(r.processing_efficiency, 9000, floor)
            /\ Rounds(r.business_value_score,
                      (900 - t) * Improvement.num * 100, 60 * Improvement.den)

\* 180 s, overall score 8.1, High urgency but not escalated: 12.0, 9.96,
\* 1.6, 0.16, 5.0, 19.2
C19_Witness ==
    /\ entry = "_calculate_business_impact"
    /\ total_processing_time = 180
    /\ OverallFraction = [num |-> 81, den |-> 10]
    /\ ~analysis.escalation_needed
    /\ analysis.urgency.level = "High"
    /\ ret = Return([time_saved_minutes |-> 1200, cost_savings_dollars |-> 996,
                     quality_improvement_points |-> 160,
                     estimated_satisfaction_improvement |-> 160,
                     processing_efficiency |-> 50, business_value_score |-> 1920])

\* C20 as stated: above 900 seconds time_saved_minutes and
\* cost_savings_dollars are negative, business_value_score is negative
\* whenever the overall score is above 6.5, and quality_improvement_points
\* is never negative.
C20_NegativeSavings ==
    entry = "_calculate_business_impact" =>
        /\ ret.value.quality_improvement_points >= 0
        /\ total_processing_time > 900 =>
               /\ ret.value.time_saved_minutes < 0
               /\ ret.value.cost_savings_dollars < 0
               /\ Improvement.num > 0 =>
                      ret.value.business_value_score < 0

\* C20: the savings are not clamped but rounded to two decimals: above
\* 900 seconds time_saved_minutes and cost_savings_dollars are negative
\* (from 901 seconds on) and business_value_score is never positive, and
\* negative when time_saved * quality_improvement is beyond -0.005;
\* quality_improvement_points is never negative.
C20_UnclampedSavings ==
    entry = "_calculate_business_impact" =>
        LET t == total_processing_time
            \* twice the product time_saved * quality_improvement, negated,
            \* in hundredths, as a fraction over `half`
            product == 2 * (t - 900) * Improvement.num * 100
            half == 60 * Improvement.den
        IN  /\ ret.value.quality_improvement_points >= 0
            /\ t > 900 =>
                   /\ ret.value.time_saved_minutes < 0
                   /\ ret.value.cost_savings_dollars < 0
                   /\ ret.value.business_value_score <= 0
                   /\ product > half => ret.value.business_value_score < 0
                   /\ product < half => ret.value.business_value_score = 0

\* 901 seconds and an overall score of 6.6: the savings are negative, the
\* business value score rounds to zero
C20_Witness ==
    /\ entry = "_calculate_business_impact"
    /\ total_processing_time = 901
    /\ OverallFraction = [num |-> 33, den |-> 5]
    /\ ret.value.time_saved_minutes = -2
    /\ ret.value.cost_savings_dollars = -1
    /\ ret.value.business_value_score = 0

\* the values of the returned mapping in thousandths, whatever the unit the
\* model keeps them in
InThousandths(impact) ==
    [time_saved_minutes |-> 10 * impact.time_saved_minutes,
     cost_savings_dollars |-> 10 * impact.cost_savings_dollars,
     quality_improvement_points |-> 10 * impact.quality_improvement_points,
     estimated_satisfaction_improvement |-> impact.estimated_satisfaction_improvement,
     processing_efficiency |-> 100 * impact.processing_efficiency,
     business_value_score |-> 10 * impact.business_value_score]

\* x thousandths is a number of at most n decimal places (n in 1..3)
HasDecimals(x, n) ==
    x % (IF n = 1 THEN 100 ELSE IF n = 2 THEN 10 ELSE 1) = 0

\* the unrounded satisfaction improvement in ten-thousandths, as a fraction
UnroundedSatisfaction ==
    [num |-> Improvement.num * MultiplierOf(analysis) * 100, den |-> Improvement.den]

\* C21 as stated: every value of the mapping returned by
\* _calculate_business_impact has at most 2 decimal places, and
\* processing_efficiency at most 1.
C21_TwoDecimals ==
    entry = "_calculate_business_impact" =>
        LET r == InThousandths(ret.value)
        IN  /\ HasDecimals(r.time_saved_minutes, 2)
            /\ HasDecimals(r.cost_savings_dollars, 2)
            /\ HasDecimals(r.quality_improvement_points, 2)
            /\ HasDecimals(r.estimated_satisfaction_improvement, 2)
            /\ HasDecimals(r.processing_efficiency, 1)
            /\ HasDecimals(r.business_value_score, 2)

\* C21: the values returned by _calculate_business_impact have at most 2
\* decimal places, processing_efficiency at most 1, and
\* estimated_satisfaction_improvement is rounded to 3 decimal places: it is
\* the multiple of 0.001 nearest to quality_improvement * 0.1 * multiplier,
\* and keeps a third decimal whenever that product has one.
C21_RoundedValues ==
    entry = "_calculate_business_impact" =>
        LET r == InThousandths(ret.value)
        IN  /\ HasDecimals(r.time_saved_minutes, 2)
            /\ HasDecimals(r.cost_savings_dollars, 2)
            /\ HasDecimals(r.quality_improvement_points, 2)
            /\ HasDecimals(r.estimated_satisfaction_improvement, 3)
            /\ Rounds(r.estimated_satisfaction_improvement,
                      UnroundedSatisfaction.num, 10 * UnroundedSatisfaction.den)
            /\ (UnroundedSatisfaction.num % (10 * UnroundedSatisfaction.den) = 0
                /\ UnroundedSatisfaction.num % (100 * UnroundedSatisfaction.den) # 0) =>
                   ~HasDecimals(r.estimated_satisfaction_improvement, 2)
            /\ HasDecimals(r.processing_efficiency, 1)
            /\ HasDecimals(r.business_value_score, 2)

\* an escalated analysis of Critical urgency with an overall score of 8.1:
\* the satisfaction improvement is 1.6 * 0.1 * 1.3 = 0.208
C21_Witness ==
    /\ entry = "_calculate_business_impact"
    /\ OverallFraction = [num |-> 81, den |-> 10]
    /\ analysis.escalation_needed
    /\ analysis.urgency.level = "Critical"
    /\ ret.value.estimated_satisfaction_improvement = 208
    /\ ret.value.quality_improvement_points = 160

\* int(s) for a string of decimal digits
RECURSIVE StrToInt(_)
StrToInt(s) ==
    IF Len(s) = 0 THEN 0
    ELSE 10 * StrToInt(SubSeq(s, 1, Len(s) - 1))
         + (CHOOSE d \in 0..9 : Digit(d) = SubSeq(s, Len(s), Len(s)))

\* the number of months read back from the tenure of a context
MonthsOf(context) ==
    StrToInt(SubSeq(context.tenure, 1, Len(context.tenure) - Len(" months")))

\* what _build_customer_context returned for the profile it was given
ContextOfProfile ==
    IF customer_profile = None
    THEN ret = Return([profile_available |-> FALSE])
    ELSE /\ ~ret.raised
         /\ ret.value.profile_available = TRUE
         /\ ret.value.tier = customer_profile.tier
         /\ ret.value.tenure = IntToStr(customer_profile.tenure_months) \o " months"
         /\ EndsWith(ret.value.tenure, " months")
         /\ MonthsOf(ret.value) = customer_profile.tenure_months
         /\ ret.value.relationship_strength
                = _assess_relationship_strength(customer_profile)

\* C22: _build_customer_context(p) has profile_available true, the tier of
\* p, the tenure "<tenure_months> months" from which tenure_months is read
\* back, and the relationship strength of p; without a profile it is exactly
\* {profile_available: false}; the call leaves the profile as it was.
C22_ContextRoundTrip ==
    /\ [](entry = "_build_customer_context" => ContextOfProfile)
    /\ [][entry' = "_build_customer_context"
              => customer_profile' = customer_profile]_vars

\* a Standard profile of 120 months: "120 months" reads back as 120
C22_Witness ==
    /\ entry = "_build_customer_context"
    /\ customer_profile = Profile("Standard", 120, "Neutral", 3)
    /\ ret.value.tier = "Standard"
    /\ ret.value.tenure = "120 months"
    /\ MonthsOf(ret.value) = 120
    /\ ret.value.relationship_strength = "Moderate"

\* the intents whose table entry contains "business days" or "24-48"
LongIntents == {"Billing Dispute", "Integration Support"}

\* the positions of the intent list that hold one of them
LongPositions ==
    {i \in 1..Len(intent_analysis.value) : intent_analysis.value[i] \in LongIntents}

\* C23: without escalation, _estimate_resolution_time returns the table
\* entry of the last intent of the list that is Billing Dispute or
\* Integration Support, and "< 2 hours" when the list holds neither,
\* whatever other intents (known or unknown) it holds.
C23_LastLongIntent ==
    (/\ entry = "_estimate_resolution_time"
     /\ ~escalation_needed
     /\ intent_analysis.type = "list") =>
        IF LongPositions = {}
        THEN ret = Return("< 2 hours")
        ELSE LET last == CHOOSE i \in LongPositions : \A j \in LongPositions : j <= i
             IN  ret = Return(time_estimates[intent_analysis.value[last]])

\* Integration Support then Billing Dispute: the later one decides
C23_Witness ==
    /\ entry = "_estimate_resolution_time"
    /\ ~escalation_needed
    /\ intent_analysis.type = "list"
    /\ intent_analysis.value = <<"Integration Support", "Billing Dispute">>
    /\ ret = Return("24-48 hours")

\* the label and the level of the tagged reply of confidence c
TaggedLabel(c) == PropagatedLabels[c \div 10]

TaggedLevel(c) == PropagatedLevels[c % 10]

\* the tone guidance of the four-way table
ToneOf(label, level) ==
    IF Negative(label) /\ HighUrgency(level)
    THEN "Extremely empathetic, formal, and solution-focused. Acknowledge frustration explicitly."
    ELSE IF Negative(label)
    THEN "Empathetic and professional. Focus on understanding and resolving concerns."
    ELSE IF HighUrgency(level)
    THEN "Professional and urgent. Emphasize quick resolution timeline."
    ELSE "Friendly and professional. Maintain positive relationship tone."

\* the reply was generated: the mapping is not the fallback one
Generated ==
    /\ response_data # None /\ ~response_data.raised
    /\ gateway_calls[Len(gateway_calls)] = [stage |-> "response", outcome |-> "text"]

\* C24: when stage 1 returned an object with both keys, the label and the
\* level of the returned AnalysisResult are the strings of the gateway's
\* reply, inside the enums or not; only Frustrated and Angry count as
\* negative and only High and Critical as high, in the escalation rule and
\* in the tone table, so an analysis with another label escalates exactly
\* when the email holds a trigger keyword.
C24_LabelsPropagate ==
    (Returned /\ ParsedCall(1)) =>
        LET a == ret.value
            label == TaggedLabel(a.sentiment.confidence)
            level == TaggedLevel(a.sentiment.confidence)
            premium == customer_profile # None /\ customer_profile.tier = "Premium"
        IN  /\ a.sentiment.label = label
            /\ a.urgency.level = level
            /\ a.escalation_needed <=>
                   \/ HasKeyword(email_content)
                   \/ HighUrgency(level) /\ Negative(label)
                   \/ premium /\ Negative(label)
            /\ ~Negative(label) => (a.escalation_needed <=> HasKeyword(email_content))
            /\ Generated => response_data.value.tone_guidance = ToneOf(label, level)
            /\ (Generated /\ ~Negative(label) /\ ~HighUrgency(level)) =>
                   response_data.value.tone_guidance =
                       "Friendly and professional. Maintain positive relationship tone."

\* "Upset" at level "Urgent" for a Premium customer who names no trigger
\* keyword: both strings are returned as they came, nothing escalates and
\* the tone is the friendly one
C24_Witness ==
    /\ Returned /\ ParsedCall(1)
    /\ email_content = "Thanks for the quick help"
    /\ customer_profile = Profile("Premium", 36, "Positive", 2)
    /\ ret.value.sentiment.label = "Upset"
    /\ ret.value.urgency.level = "Urgent"
    /\ ~ret.value.escalation_needed
    /\ Generated
    /\ response_data.value.tone_guidance =
           "Friendly and professional. Maintain positive relationship tone."

\* both entry points have returned: the result of
\* analyze_customer_communication is the one entry of the history, the
\* result of analyze_customer_communication_with_full_tracking is in `ret`
BothCompleted ==
    /\ entry = "tracked" /\ pc = "idle"
    /\ Len(analysis_history) = 1
    /\ ret # None /\ ~ret.raised

\* C25: on the same email, profile and gateway replies of the three
\* classification stages, whenever both entry points return, the
\* AnalysisResult under "analysis" of
\* analyze_customer_communication_with_full_tracking equals, field by field,
\* the one analyze_customer_communication returns.
C25_SameAnalysis ==
    BothCompleted =>
        /\ DOMAIN ret.value.analysis = DOMAIN analysis_history[1]
        /\ \A field \in DOMAIN analysis_history[1] :
               ret.value.analysis[field] = analysis_history[1][field]

\* both return for a parsed sentiment reply and a list that names an intent
\* twice; the tracked call has made its five gateway calls
C25_Witness ==
    /\ BothCompleted
    /\ analysis_history[1].intent = PyList(<<"Billing Dispute", "Billing Dispute">>)
    /\ analysis_history[1].sentiment.label = "Upset"
    /\ analysis_history[1].customer_context.profile_available
    /\ ret.value.analysis.estimated_resolution_time = "24-48 hours"
    /\ Len(gateway_calls) = 5
    /\ Len(conversation_traces) = 1

\* the three classification calls of the running analysis failed
AllCallsFailed == FailedCall(1) /\ FailedCall(2) /\ FailedCall(3)

\* C26: when all three classification calls fail,
\* analyze_customer_communication returns (it does not raise) sentiment
\* Neutral with confidence 0.5, urgency Medium, intent ["General Inquiry"]
\* and the stub issue list; escalation_needed is true exactly when the email
\* holds a trigger keyword, for every profile, and without a keyword the
\* estimated resolution time is "< 2 hours".
C26_TotalDegradation ==
    (entry = "analyze" /\ pc = "idle" /\ ret # None /\ AllCallsFailed) =>
        /\ ~ret.raised
        /\ ret.value.sentiment.label = "Neutral"
        /\ ret.value.sentiment.confidence = 50
        /\ ret.value.urgency.level = "Medium"
        /\ ret.value.intent = PyList(<<"General Inquiry">>)
        /\ ret.value.key_issues = PyList(<<"Unable to extract specific issues">>)
        /\ ret.value.escalation_needed <=> HasKeyword(email_content)
        /\ ~HasKeyword(email_content) =>
               ret.value.estimated_resolution_time = "< 2 hours"
        /\ HasKeyword(email_content) =>
               ret.value.estimated_resolution_time = "< 2 hours (escalated)"

\* a Premium customer who names no keyword, every call failing: the fallback
\* analysis, not escalated
C26_Witness ==
    /\ Returned /\ AllCallsFailed
    /\ customer_profile = Profile("Premium", 36, "Positive", 2)
    /\ email_content = "Thanks for the quick help"
    /\ ret.value.sentiment.label = "Neutral"
    /\ ~ret.value.escalation_needed
    /\ ret.value.estimated_resolution_time = "< 2 hours"
    /\ ret.value.customer_context.tier = "Premium"

\* s is t, or t with one element appended
SameOrAppended(s, t) ==
    \/ s = t
    \/ Len(s) = Len(t) + 1 /\ SubSeq(s, 1, Len(t)) = t

\* what a step of each call may change of the two lists and the metrics
WriterSteps ==
    /\ entry' = "analyze" =>
           /\ UNCHANGED <<conversation_traces, performance_metrics>>
           /\ SameOrAppended(analysis_history', analysis_history)
           /\ response_data' # response_data => UNCHANGED analysis_history
    /\ entry' = "tracked" =>
           /\ UNCHANGED analysis_history
           /\ SameOrAppended(conversation_traces', conversation_traces)
    /\ entry' = "dashboard" =>
           UNCHANGED <<analysis_history, conversation_traces, performance_metrics>>

\* C27: on a tracked agent analyze_customer_communication appends to
\* analysis_history and leaves conversation_traces and performance_metrics
\* alone, analyze_customer_communication_with_full_tracking appends to
\* conversation_traces and leaves analysis_history alone, and
\* generate_response_suggestion and get_analytics_dashboard_data change
\* neither list; so with untracked analyses only, however many,
\* get_analytics_dashboard_data returns the demo constants.
C27_DisjointWriters ==
    /\ [][WriterSteps]_vars
    /\ []((Returned /\ analysis_history # << >>) =>
              analysis_history[Len(analysis_history)] = ret.value)
    /\ []((entry = "dashboard" /\ conversation_traces = << >>) =>
              /\ ret = Return(_get_demo_analytics_data)
              /\ performance_metrics = InitialMetrics)

\* the dashboard after two untracked analyses and a suggested response: two
\* results in the history, no trace, the demo constants
C27_Witness ==
    /\ entry = "dashboard"
    /\ Len(analysis_history) = 2
    /\ response_data # None
    /\ conversation_traces = << >>
    /\ performance_metrics = InitialMetrics
    /\ ret = Return(_get_demo_analytics_data)

\* a step that ends a call of analyze_customer_communication_with_full_tracking
TrackedEnds == entry = "tracked" /\ pc # "idle" /\ pc' = "idle"

\* the counter and the list grow together, by one, when a tracked analysis
\* returns, and at no other step
CountedOnce ==
    /\ (TrackedEnds /\ ~ret'.raised) =>
           /\ Len(conversation_traces') = Len(conversation_traces) + 1
           /\ performance_metrics'.total_conversations
                  = performance_metrics.total_conversations + 1
           /\ conversation_traces'[Len(conversation_traces')]
                  = ret'.value.conversation_trace
    /\ ~(TrackedEnds /\ ~ret'.raised) =>
           UNCHANGED <<conversation_traces, performance_metrics>>

\* the metrics agree with the list of traces
MetricsOfTraces ==
    LET n == Len(conversation_traces)
    IN  /\ performance_metrics.total_conversations = n
        /\ n = 0 => performance_metrics = InitialMetrics
        /\ n > 0 =>
               /\ performance_metrics.escalation_rate
                      = FDiv(FOfInt(EscalatedTraces), FOfInt(n))
               /\ (entry = "dashboard" /\ ~ret.raised) =>
                      ret.value.performance_metrics.escalation_rate
                          = FRoundScaled(performance_metrics.escalation_rate, 1000)

\* C28: after any sequence of tracked analyses on one agent,
\* performance_metrics.total_conversations is the length of
\* conversation_traces (a completed tracked analysis appends one trace and
\* counts once, the new trace being counted in the rates), and
\* performance_metrics.escalation_rate is the number of traces of an
\* escalated analysis divided by that length, the ratio
\* get_analytics_dashboard_data rounds.
C28_MetricsMatchTraces == []MetricsOfTraces /\ [][CountedOnce]_vars

\* two tracked analyses, the second one escalated: the rate is 1/2, and the
\* dashboard reports 0.5
C28_Witness ==
    /\ entry = "dashboard"
    /\ Len(conversation_traces) = 2
    /\ ~conversation_traces[1].analysis_results.escalation_needed
    /\ conversation_traces[2].analysis_results.escalation_needed
    /\ performance_metrics.total_conversations = 2
    /\ performance_metrics.escalation_rate = FOfDecimal(5, 10)
    /\ ret.value.performance_metrics.escalation_rate = 500

\* a step of analyze_customer_communication_with_full_tracking other than
\* the one that stores the trace and returns
BeforeStored == entry' = "tracked" /\ ~(pc = "store" /\ pc' = "idle")

\* such a step changes nothing of the agent, and when it ends the call it
\* ends it with the exception
RaisedUnchanged ==
    BeforeStored =>
        /\ UNCHANGED <<conversation_traces, performance_metrics, analysis_history>>
        /\ (pc # "idle" /\ pc' = "idle") =>
               /\ ret' # None /\ ret'.raised
               /\ ret'.value \in {"KeyError", "TypeError", "AttributeError"}

\* a tracked call whose only gateway call returned JSON has ended: the
\* wrapper of stage 1 raised on the parsed value
RaisedAtSentiment ==
    /\ entry = "tracked" /\ pc = "idle" /\ ret # None
    /\ Len(gateway_calls) = 1 /\ ParsedCall(1)

\* C29: when a step of analyze_customer_communication_with_full_tracking
\* raises before the trace is stored, as the wrapper of stage 1 does on a
\* JSON reply that lacks "sentiment", the caller gets the exception, and no
\* trace is appended and performance_metrics keeps its values.
C29_RaiseLeavesState ==
    /\ [][RaisedUnchanged]_vars
    /\ [](RaisedAtSentiment =>
              /\ ret.raised /\ ret.value \in {"KeyError", "TypeError"}
              /\ Len(conversation_traces) = performance_metrics.total_conversations)
    /\ []((entry = "tracked" /\ pc = "idle" /\ ret # None /\ ~ret.raised) =>
              /\ Len(gateway_calls) = 5
              /\ conversation_traces # << >>
              /\ conversation_traces[Len(conversation_traces)]
                     = ret.value.conversation_trace)

\* after one stored trace, a second tracked call raised KeyError at stage 1:
\* still one trace and a count of one
C29_Witness ==
    /\ RaisedAtSentiment
    /\ ret = Raise("KeyError")
    /\ Len(conversation_traces) = 1
    /\ performance_metrics.total_conversations = 1
    /\ performance_metrics.total_processing_time
           = conversation_traces[1].performance_metrics.total_processing_time

\* the profile earns every point there is
TopProfile(p) ==
    /\ p.tier = "Premium" /\ p.tenure_months > 24
    /\ p.previous_sentiment = "Positive" /\ p.support_tickets_count < 3

\* C30: for every profile the relationship score lies in 0..7 and
\* _assess_relationship_strength returns one of Strong, Moderate and Weak; a
\* profile of a tier other than Premium and Standard scores at most 5 and is
\* never rated Strong; the score is 7 exactly for a Premium profile with
\* tenure above 24 months, Positive previous sentiment and fewer than 3
\* tickets.
C30_ScoreRange ==
    entry = "_assess_relationship_strength" =>
        LET p == customer_profile
            score == RelationshipScore(p)
        IN  /\ score \in 0..7
            /\ ~ret.raised /\ ret.value \in {"Strong", "Moderate", "Weak"}
            /\ p.tier \notin {"Premium", "Standard"} =>
                   score <= 5 /\ ret.value # "Strong"
            /\ score = 7 <=> TopProfile(p)
            /\ TopProfile(p) => ret.value = "Strong"

\* a Basic profile with every other point: score 5, Moderate
C30_Witness ==
    /\ entry = "_assess_relationship_strength"
    /\ customer_profile = Profile("Basic", 36, "Positive", 2)
    /\ RelationshipScore(customer_profile) = 5
    /\ ret = Return("Moderate")

====
